---- MODULE Spec2Model ----
(***************************************************************************)
(* A model of the hunger_heroes backend: the traffic adjustment engine of   *)
(* api/traffic.py (dataset loader, street index, normalizer, instruction    *)
(* parser, classifier, route adjustment), the daily route usage counter of  *)
(* model/subscription.py with the two endpoints that use it, and the        *)
(* subscription life cycle of api/subscription.py.                          *)
(*                                                                          *)
(* Text is modelled by TLA+ strings, handled character by character with    *)
(* Len, SubSeq and \o.  Vehicle counts and their means are exact rationals  *)
(* [n, d] in lowest terms; multipliers are integers in thousandths.         *)
(***************************************************************************)
EXTENDS Integers, Sequences, FiniteSets, TLC

(***************************************************************************)
(* Text: the str methods and the regular expressions the engine uses.       *)
(***************************************************************************)

\* s[i] of Python, 1-based, as a string of one character.
Ch(s, i) == SubSeq(s, i, i)

LowerLetters == "abcdefghijklmnopqrstuvwxyz"

UpperLetters == "ABCDEFGHIJKLMNOPQRSTUVWXYZ"

\* The characters of a string, as a set.
CharsOf(s) == {Ch(s, i) : i \in 1..Len(s)}

\* c.upper() for every lower-case letter c.
UpperMap ==
    [c \in CharsOf(LowerLetters) |->
        Ch(UpperLetters, CHOOSE i \in 1..Len(LowerLetters) : Ch(LowerLetters, i) = c)]

\* c.upper() for one character.
UpperCh(c) == IF c \in DOMAIN UpperMap THEN UpperMap[c] ELSE c

RECURSIVE str_upper(_)
\* str.upper
str_upper(s) ==
    IF Len(s) = 0 THEN ""
    ELSE UpperCh(Ch(s, 1)) \o str_upper(SubSeq(s, 2, Len(s)))

\* Whitespace, as str.strip, str.split and the regular expression class \s see it.
WhiteSpace == {" ", "\t", "\n"}

\* The regular expression class \w.
WordSet == CharsOf(LowerLetters \o UpperLetters \o "0123456789_")

\* The regular expression class [A-Z0-9].
AlnumUpSet == CharsOf(UpperLetters \o "0123456789")

RECURSIVE str_lstrip(_)
str_lstrip(s) ==
    IF Len(s) > 0 /\ Ch(s, 1) \in WhiteSpace THEN str_lstrip(SubSeq(s, 2, Len(s))) ELSE s

RECURSIVE str_rstrip(_)
str_rstrip(s) ==
    IF Len(s) > 0 /\ Ch(s, Len(s)) \in WhiteSpace THEN str_rstrip(SubSeq(s, 1, Len(s) - 1)) ELSE s

\* str.strip
str_strip(s) == str_rstrip(str_lstrip(s))

\* a in b, of two strings (the empty string is in every string).
str_in(a, b) == \E i \in 0..(Len(b) - Len(a)) : SubSeq(b, i + 1, i + Len(a)) = a

\* b.startswith(a)
str_startswith(b, a) == Len(a) <= Len(b) /\ SubSeq(b, 1, Len(a)) = a

RECURSIVE SpaceRun(_, _)
\* The length of the run of whitespace that starts at position i.
SpaceRun(s, i) ==
    IF i <= Len(s) /\ Ch(s, i) \in WhiteSpace THEN 1 + SpaceRun(s, i + 1) ELSE 0

RECURSIVE NonSpaceRun(_, _)
\* The length of the run of non-whitespace that starts at position i.
NonSpaceRun(s, i) ==
    IF i <= Len(s) /\ Ch(s, i) \notin WhiteSpace THEN 1 + NonSpaceRun(s, i + 1) ELSE 0

RECURSIVE AlnumRun(_, _)
\* The length of the run of [A-Z0-9] that starts at position i.
AlnumRun(s, i) ==
    IF i <= Len(s) /\ Ch(s, i) \in AlnumUpSet THEN 1 + AlnumRun(s, i + 1) ELSE 0

\* A word and the joined rest of the words.
join_rest(word, rest) == IF Len(rest) = 0 THEN word ELSE word \o " " \o rest

RECURSIVE join_split(_)
\* The first word of t, w characters long, joined to the words after it.
join_word(t, w) == join_rest(SubSeq(t, 1, w), join_split(SubSeq(t, w + 1, Len(t))))

\* The words of t, which does not start with whitespace, joined.
join_from(t) == IF Len(t) = 0 THEN "" ELSE join_word(t, NonSpaceRun(t, 1))

\* ' '.join(s.split()): the words of s, one space between them.
join_split(s) == join_from(str_lstrip(s))

\* WordBoundary of a pattern without \b: every gap qualifies.
WordBoundary_any(s, i) == TRUE

\* \b at the gap before position i of s (1 .. Len(s)+1).
WordBoundary(s, i) ==
    LET before == i > 1 /\ Ch(s, i - 1) \in WordSet
        after == i <= Len(s) /\ Ch(s, i) \in WordSet
    IN  before # after

RECURSIVE re_sub_first(_, _, _, _)
\* re_sub_word with count=1: only the first match is replaced.
re_sub_first(full, abbrev, s, i) ==
    IF i + Len(full) - 1 > Len(s) THEN SubSeq(s, i, Len(s))
    ELSE IF /\ SubSeq(s, i, i + Len(full) - 1) = full
            /\ WordBoundary(s, i)
            /\ WordBoundary(s, i + Len(full))
         THEN abbrev \o SubSeq(s, i + Len(full), Len(s))
         ELSE Ch(s, i) \o re_sub_first(full, abbrev, s, i + 1)

RECURSIVE re_sub_word(_, _, _, _)
\* re.sub(rf'\b{full}\b', abbrev, s), scanning from position i.
re_sub_word(full, abbrev, s, i) ==
    IF i + Len(full) - 1 > Len(s) THEN SubSeq(s, i, Len(s))
    ELSE IF /\ SubSeq(s, i, i + Len(full) - 1) = full
            /\ WordBoundary(s, i)
            /\ WordBoundary(s, i + Len(full))
         THEN abbrev \o re_sub_word(full, abbrev, s, i + Len(full))
         ELSE Ch(s, i) \o re_sub_word(full, abbrev, s, i + 1)

\* The abbreviations of _normalize_street_name, in the order of the dict.
abbreviations ==
    << <<"STREET", "ST">>, <<"AVENUE", "AV">>, <<"BOULEVARD", "BL">>, <<"DRIVE", "DR">>,
       <<"ROAD", "RD">>, <<"LANE", "LN">>, <<"COURT", "CT">>, <<"PLACE", "PL">>,
       <<"HIGHWAY", "HW">>, <<"FREEWAY", "FW">> >>

RECURSIVE ApplyAbbreviations(_, _)
\* The loop over abbreviations.items(), from entry k on.
ApplyAbbreviations(name, k) ==
    IF k > Len(abbreviations) THEN name
    ELSE ApplyAbbreviations(re_sub_word(abbreviations[k][1], abbreviations[k][2], name, 1), k + 1)

\* TrafficData._normalize_street_name
normalize_street_name(street_name) ==
    IF street_name = "" THEN ""
    ELSE join_split(ApplyAbbreviations(str_strip(str_upper(street_name)), 1))

(***************************************************************************)
(* The instruction parser.  re.findall scans from the left, takes at each   *)
(* start the first match in backtracking order and resumes after it.        *)
(***************************************************************************)

\* The suffix tokens of the three patterns.
suffixes == {"ST", "AV", "BL", "DR", "RD", "LN", "CT", "PL", "HW", "FW"}

\* (?:ONTO|ON|TO) and (?:VIA|TAKE), alternatives in the order they are tried.
lead_words == << <<"ONTO", "ON", "TO">>, <<"VIA", "TAKE">> >>

\* (?:ST|AV|...) matches at position p.
SuffixAt(s, p) == p + 1 <= Len(s) /\ SubSeq(s, p, p + 1) \in suffixes

RECURSIVE GroupRun(_, _)
\* The length of the run of [A-Z0-9\s] that starts at position i.
GroupRun(s, i) ==
    IF i <= Len(s) /\ (Ch(s, i) \in AlnumUpSet \/ Ch(s, i) \in WhiteSpace) THEN 1 + GroupRun(s, i + 1) ELSE 0

\* (?:\s+(?:ST|AV|...)) matches at position p: the greedy \s+ must take the
\* whole run, since every suffix token starts with a letter.
TailOK(s, p) == SpaceRun(s, p) >= 1 /\ SuffixAt(s, p + SpaceRun(s, p))

\* The ways lead\s+([A-Z0-9\s]+?)(?:\s+suffix) matches at position i: <<k, glen>>
\* with k the length of the first \s+ and glen that of the group.
LeadWays(s, i, lead) ==
    IF i + Len(lead) - 1 > Len(s) \/ SubSeq(s, i, i + Len(lead) - 1) # lead THEN {}
    ELSE LET j == i + Len(lead)
         IN  {w \in (1..SpaceRun(s, j)) \X (1..GroupRun(s, j + 1)) :
                 /\ w[2] <= GroupRun(s, j + w[1])
                 /\ TailOK(s, j + w[1] + w[2])}

\* The least element of a set of positive numbers, 0 if it is empty.
MinOrZero(S) == IF S = {} THEN 0 ELSE CHOOSE x \in S : \A y \in S : x <= y

\* The way the matcher finds first: the longest first \s+ (greedy), then the
\* shortest group (lazy).
BestWay(ways) ==
    CHOOSE w \in ways : \A v \in ways : w[1] > v[1] \/ (w[1] = v[1] /\ w[2] <= v[2])

NoMatch(i) == [ok |-> FALSE, group |-> "", end |-> i]

\* The match of lead at position i taken the way w; g is where the group starts.
LeadResult(s, g, w) ==
    [ok |-> TRUE, group |-> SubSeq(s, g, g + w[2] - 1),
     end |-> g + w[2] + SpaceRun(s, g + w[2]) + 2]

\* The match at position i with the a-th alternative (none matches if a = 0).
LeadMatchWith(s, i, leads, a) ==
    IF a = 0 THEN NoMatch(i)
    ELSE LeadResult(s, i + Len(leads[a]) + BestWay(LeadWays(s, i, leads[a]))[1],
                    BestWay(LeadWays(s, i, leads[a])))

\* The match of patterns[n] (n = 1, 2) at position i: with the first alternative
\* that matches.
LeadMatch(s, i, n) ==
    LeadMatchWith(s, i, lead_words[n],
                  MinOrZero({a \in 1..Len(lead_words[n]) : LeadWays(s, i, lead_words[n][a]) # {}}))

\* The match of patterns[3] at position i, given the lengths r of [A-Z0-9]+ and v
\* of \s+ (both greedy; a shorter [A-Z0-9]+ is followed by no whitespace).
BareResult(s, i, r, v) ==
    IF r >= 1 /\ v >= 1 /\ SuffixAt(s, i + r + v)
    THEN [ok |-> TRUE, group |-> SubSeq(s, i, i + r + v + 1), end |-> i + r + v + 2]
    ELSE NoMatch(i)

\* The match of patterns[3], ([A-Z0-9]+\s+(?:ST|AV|...)), at position i.
BareMatch(s, i) == BareResult(s, i, AlnumRun(s, i), SpaceRun(s, i + AlnumRun(s, i)))

\* The match of patterns[n] at position i.
PatternMatch(s, i, n) == IF n = 3 THEN BareMatch(s, i) ELSE LeadMatch(s, i, n)

RECURSIVE re_findall(_, _, _)
\* The matches from position pos on, m being the match at pos.
findall_step(n, s, pos, m) ==
    IF m.ok THEN <<m.group>> \o re_findall(n, s, m.end) ELSE re_findall(n, s, pos + 1)

\* re.findall(patterns[n], s), scanning from position pos.
re_findall(n, s, pos) ==
    IF pos > Len(s) THEN << >> ELSE findall_step(n, s, pos, PatternMatch(s, pos, n))

\* streets after the loop over patterns, for the upper-cased instruction.
all_matches(up) == re_findall(1, up, 1) \o re_findall(2, up, 1) \o re_findall(3, up, 1)

\* cleaned, as a set.
clean_streets(streets) ==
    {c \in {normalize_street_name(streets[i]) : i \in 1..Len(streets)} : c # "" /\ Len(c) > 2}

\* TrafficData._extract_street_from_instruction: the set behind list(set(cleaned)).
extract_street_from_instruction(instruction) ==
    IF instruction = "" THEN {} ELSE clean_streets(all_matches(str_upper(instruction)))

(***************************************************************************)
(* Numbers.  A count or a mean of counts is the exact rational [n, d] in    *)
(* lowest terms with d > 0; the code holds them as floats.                  *)
(***************************************************************************)

RECURSIVE Gcd(_, _)
Gcd(a, b) == IF b = 0 THEN a ELSE Gcd(b, a % b)

Abs(a) == IF a < 0 THEN -a ELSE a

\* The rational n/d (d > 0) in lowest terms.
Rat(n, d) == LET g == Gcd(Abs(n), d) IN [n |-> n \div g, d |-> d \div g]

RatAdd(a, b) == Rat(a.n * b.d + b.n * a.d, a.d * b.d)

\* a < k and a >= k for a rational a and an integer k.
RatLt(a, k) == a.n < k * a.d

RECURSIVE SumSeq(_)
\* sum() of a sequence of integers.
SumSeq(q) == IF Len(q) = 0 THEN 0 ELSE Head(q) + SumSeq(Tail(q))

RECURSIVE SumSet(_)
\* The sum of the total_count of a set of rows.
SumSet(rows) ==
    IF rows = {} THEN 0
    ELSE LET r == CHOOSE x \in rows : TRUE IN r.total_count + SumSet(rows \ {r})

RECURSIVE RatSum(_)
\* sum() of a sequence of rationals.
RatSum(q) == IF Len(q) = 0 THEN Rat(0, 1) ELSE RatAdd(Head(q), RatSum(Tail(q)))

\* a / k for a rational a and a positive integer k.
RatDiv(a, k) == Rat(a.n, a.d * k)

\* sum(q) / len(q) of a non-empty sequence of rationals.
RatMean(q) == RatDiv(RatSum(q), Len(q))

\* int(round(a, 0)): round half to even.
RoundHalfEven(a) ==
    LET fl == a.n \div a.d
        twice == 2 * (a.n - fl * a.d)
    IN  IF twice < a.d THEN fl
        ELSE IF twice > a.d THEN fl + 1
        ELSE IF fl % 2 = 0 THEN fl ELSE fl + 1

(***************************************************************************)
(* The dataset file and its loader.  A file is missing, unreadable or a csv *)
(* with a set of columns and a sequence of raw rows.  A raw total_count     *)
(* cell is a number, blank or text that is no number; a raw date_count cell *)
(* is a day number, or NaT when it is blank or does not parse.              *)
(***************************************************************************)

\* pd.NaT, the date of a row whose date_count is missing or unparsable.
NaT == 0

NumCell(v) == [t |-> "num", v |-> v]

BlankCell == [t |-> "blank", v |-> 0]

TextCell == [t |-> "text", v |-> 0]

\* pd.DataFrame(): no columns, no rows.
EmptyFrame == [columns |-> {}, rows |-> << >>]

\* DataFrame.empty
df_empty(df) == df.columns = {} \/ Len(df.rows) = 0

\* df['street_name'].astype(str).str.upper().str.strip(): a blank cell is NaN, "nan" as str.
clean_street_name(cell) == IF cell = "" THEN "NAN" ELSE str_strip(str_upper(cell))

\* pd.to_numeric(df['total_count'], errors='coerce').fillna(0)
clean_total_count(cell) == IF cell.t = "num" THEN cell.v ELSE 0

\* The cleaning of one row; date_count stays NaT without the column.
clean_row(row, columns) ==
    [street_name |-> clean_street_name(row.street_name),
     total_count |-> clean_total_count(row.total_count),
     date_count |-> IF "date_count" \in columns THEN row.date_count ELSE NaT]

\* _load_data without the test of the required columns.
load_data_unchecked(file) ==
    IF file.kind # "csv" THEN EmptyFrame
    ELSE [columns |-> file.columns,
          rows |-> [i \in 1..Len(file.rows) |-> clean_row(file.rows[i], file.columns)]]

\* TrafficData._load_data
load_data(file) ==
    IF file.kind # "csv" THEN EmptyFrame
    ELSE IF ~({"street_name", "total_count"} \subseteq file.columns) THEN EmptyFrame
    ELSE [columns |-> file.columns,
          rows |-> [i \in 1..Len(file.rows) |-> clean_row(file.rows[i], file.columns)]]

(***************************************************************************)
(* The street index builder.  The index is a sequence of entries in the     *)
(* insertion order of the dict, which is the order of first appearance.     *)
(***************************************************************************)

\* The number of rows sorted_data.head(3) keeps.
RecentWindow == 3

RECURSIVE UniqueFrom(_, _, _)
\* df['street_name'].unique(): the names of rows[i..], those in seen left out.
UniqueFrom(rows, i, seen) ==
    IF i > Len(rows) THEN << >>
    ELSE IF rows[i].street_name \in seen THEN UniqueFrom(rows, i + 1, seen)
    ELSE <<rows[i].street_name>> \o UniqueFrom(rows, i + 1, seen \cup {rows[i].street_name})

unique_street_names(df) == UniqueFrom(df.rows, 1, {})

\* street_data, as the row numbers of the group.
street_data(df, street_name) == {i \in 1..Len(df.rows) : df.rows[i].street_name = street_name}

\* Row i comes before row j in every outcome of sort_values('date_count',
\* ascending=False): NaT rows go last in file order; the order of two rows with the
\* same date is left to the sort (quicksort, not stable).
SortsBefore(df, i, j) ==
    LET di == df.rows[i].date_count
        dj == df.rows[j].date_count
    IN  \/ di # NaT /\ dj = NaT
        \/ di # NaT /\ dj # NaT /\ di > dj
        \/ di = NaT /\ dj = NaT /\ i < j

\* The row sets sorted_data.head(3) can be.
sorted_heads(df, group) ==
    LET size == IF Cardinality(group) < RecentWindow THEN Cardinality(group) ELSE RecentWindow
    IN  {h \in SUBSET group :
            /\ Cardinality(h) = size
            /\ \A i \in h : \A j \in group : SortsBefore(df, j, i) => j \in h}

\* The mean of total_count over a non-empty set of row numbers.
mean_count(df, rowset) ==
    Rat(SumSet({[i |-> i, total_count |-> df.rows[i].total_count] : i \in rowset}),
        Cardinality(rowset))

\* The values recent_avg can take for a group.
recent_avgs(df, group) ==
    IF "date_count" \in df.columns
    THEN {mean_count(df, h) : h \in sorted_heads(df, group)}
    ELSE {mean_count(df, group)}

\* index_entries with max_count, min_count and sample_size taken over the rows
\* of sorted_data.head(3).
index_entries_recent(df, street_name) ==
    LET group == street_data(df, street_name)
    IN  {[street_name |-> street_name,
          avg_count |-> avg,
          max_count |-> CHOOSE c \in {df.rows[i].total_count : i \in h} :
                            \A i \in h : df.rows[i].total_count <= c,
          min_count |-> CHOOSE c \in {df.rows[i].total_count : i \in h} :
                            \A i \in h : c <= df.rows[i].total_count,
          sample_size |-> Cardinality(h)] :
            avg \in recent_avgs(df, group), h \in sorted_heads(df, group)}

\* The entries the loop body can store for street_name (one per value of recent_avg).
index_entries(df, street_name) ==
    LET group == street_data(df, street_name)
        counts == {df.rows[i].total_count : i \in group}
    IN  {[street_name |-> street_name,
          avg_count |-> avg,
          max_count |-> CHOOSE c \in counts : \A x \in counts : x <= c,
          min_count |-> CHOOSE c \in counts : \A x \in counts : c <= x,
          sample_size |-> Cardinality(group)] : avg \in recent_avgs(df, group)}

RECURSIVE IndexesFrom(_, _, _)
\* The indexes the loop can build over names[k..].
IndexesFrom(df, names, k) ==
    IF k > Len(names) THEN {<< >>}
    ELSE {<<e>> \o rest : e \in index_entries(df, names[k]), rest \in IndexesFrom(df, names, k + 1)}

\* TrafficData._build_street_index, run to completion: the indexes it can build.
build_street_index(df) ==
    IF df_empty(df) THEN {<< >>}
    ELSE IndexesFrom(df, unique_street_names(df), 1)

\* The keys of an index.
index_keys(index) == {index[i].street_name : i \in 1..Len(index)}

\* self.street_index[key]
index_get(index, key) == index[CHOOSE i \in 1..Len(index) : index[i].street_name = key]

(***************************************************************************)
(* The classifier.                                                          *)
(***************************************************************************)

\* TrafficData.TRAFFIC_THRESHOLDS (very_high is float('inf'), never compared).
TRAFFIC_THRESHOLDS == [very_low |-> 3000, low |-> 8000, moderate |-> 15000, high |-> 25000]

\* TrafficData.CONGESTION_MULTIPLIERS, in thousandths.
CONGESTION_MULTIPLIERS ==
    [very_low |-> 900, low |-> 950, moderate |-> 1000, high |-> 1150, very_high |-> 1300]

\* The count None: no rational has d = 0.
NoCount == [n |-> 0, d |-> 0]

\* The averages of the entries whose key contains the name or is contained in it.
partial_matches(index, normalized) ==
    LET hit(i) == \/ str_in(normalized, index[i].street_name)
                  \/ str_in(index[i].street_name, normalized)
        F[i \in 0..Len(index)] ==
            IF i = 0 THEN << >>
            ELSE IF hit(i) THEN Append(F[i - 1], index[i].avg_count) ELSE F[i - 1]
    IN  F[Len(index)]

\* mean_or_none with the division guarded instead of the list tested: 0 without a match.
mean_or_zero(matches) ==
    IF Len(matches) > 0 THEN RatMean(matches) ELSE Rat(0, 1)

\* The end of get_traffic_count: the mean of the partial matches, None without any.
mean_or_none(matches) == IF Len(matches) > 0 THEN RatMean(matches) ELSE NoCount

\* lookup_count without the exact match: the partial match alone.
lookup_count_partial(index, normalized) ==
    mean_or_none(partial_matches(index, normalized))

\* get_traffic_count after the normalization: exact match first, then partial.
lookup_count(index, normalized) ==
    IF normalized \in index_keys(index) THEN index_get(index, normalized).avg_count
    ELSE mean_or_none(partial_matches(index, normalized))

\* TrafficData.get_traffic_count
get_traffic_count(df, index, street_name) ==
    IF df_empty(df) THEN NoCount
    ELSE lookup_count(index, normalize_street_name(street_name))

\* level_of with every comparison <= instead of <.
level_of_closed(count) ==
    IF count.n <= TRAFFIC_THRESHOLDS.very_low * count.d THEN "very_low"
    ELSE IF count.n <= TRAFFIC_THRESHOLDS.low * count.d THEN "low"
    ELSE IF count.n <= TRAFFIC_THRESHOLDS.moderate * count.d THEN "moderate"
    ELSE IF count.n <= TRAFFIC_THRESHOLDS.high * count.d THEN "high"
    ELSE "very_high"

\* The if/elif chain of get_traffic_level.
level_of(count) ==
    IF RatLt(count, TRAFFIC_THRESHOLDS.very_low) THEN "very_low"
    ELSE IF RatLt(count, TRAFFIC_THRESHOLDS.low) THEN "low"
    ELSE IF RatLt(count, TRAFFIC_THRESHOLDS.moderate) THEN "moderate"
    ELSE IF RatLt(count, TRAFFIC_THRESHOLDS.high) THEN "high"
    ELSE "very_high"

\* The tuple get_traffic_level returns for a level.
level_tuple(level, count) ==
    [level |-> level, multiplier |-> CONGESTION_MULTIPLIERS[level], count |-> count]

\* get_traffic_level after the lookup.
classify_count(count) ==
    IF count = NoCount THEN [level |-> "unknown", multiplier |-> 1000, count |-> NoCount]
    ELSE level_tuple(level_of(count), count)

\* TrafficData.get_traffic_level
get_traffic_level(df, index, street_name) ==
    classify_count(get_traffic_count(df, index, street_name))

(***************************************************************************)
(* The route adjustment calculator.  A step is [has_instruction,            *)
(* instruction]; the multiplier of a result is in thousandths.              *)
(***************************************************************************)

RECURSIVE Perms(_)
\* The orders list(set(...)) can give a set.
Perms(S) ==
    IF S = {} THEN {<< >>}
    ELSE UNION {{<<x>> \o p : p \in Perms(S \ {x})} : x \in S}

\* step.get('instruction', '')
step_instruction(step) == IF step.has_instruction THEN step.instruction ELSE ""

\* The instructions of the routes of the model.
Instructions ==
    {"", "Continue straight", "Turn right onto Main St", "Turn left onto Elm Av",
     "Head north on E St toward Elm Av", "Turn right onto Main St toward E St"}

\* _extract_street_from_instruction on the instructions of the model, computed once.
ExtractTable == [s \in Instructions |-> extract_street_from_instruction(s)]

\* _extract_street_from_instruction as the calculator calls it.
extracted_streets(instruction) ==
    IF instruction \in Instructions THEN ExtractTable[instruction]
    ELSE extract_street_from_instruction(instruction)

\* append_detail without the test of the level: an unknown street is appended too.
append_detail_all(details, street, t) ==
    Append(details, [street |-> street, level |-> t.level,
                     multiplier |-> t.multiplier, count |-> t.count])

\* The body of the inner loop: a street of level t.level is appended unless unknown.
append_detail(details, street, t) ==
    IF t.level # "unknown"
    THEN Append(details, [street |-> street, level |-> t.level,
                          multiplier |-> t.multiplier, count |-> t.count])
    ELSE details

\* The street_details one step appends for its streets taken in the given order.
step_details(df, index, order) ==
    LET F[i \in 0..Len(order)] ==
            IF i = 0 THEN << >>
            ELSE append_detail(F[i - 1], order[i], get_traffic_level(df, index, order[i]))
    IN  F[Len(order)]

\* The values street_details can have after the loop over route_steps.
route_details(df, index, route_steps) ==
    LET F[k \in 1..(Len(route_steps) + 1)] ==
            IF k > Len(route_steps) THEN {<< >>}
            ELSE {step_details(df, index, order) \o rest :
                     order \in Perms(extracted_streets(step_instruction(route_steps[k]))),
                     rest \in F[k + 1]}
    IN  F[1]

\* The result of both early returns of calculate_route_adjustment.
IdentityAdjustment ==
    [multiplier |-> 1000, confidence |-> "low", streets_matched |-> 0, street_details |-> << >>]

\* confidence_of with > in the place of >=.
confidence_of_above(n) == IF n > 5 THEN "high" ELSE IF n > 2 THEN "medium" ELSE "low"

\* The confidence of a route with n matched streets.
confidence_of(n) == IF n >= 5 THEN "high" ELSE IF n >= 2 THEN "medium" ELSE "low"

\* round(sum(multipliers) / len(multipliers), 3), in thousandths: the nearest
\* thousandth; halfway between two the quotient is a float next to the tie and
\* the result is the one or the other.
round_3(total, n) ==
    LET fl == total \div n
        twice == 2 * (total - fl * n)
    IN  IF twice < n THEN {fl}
        ELSE IF twice > n THEN {fl + 1}
        ELSE {fl, fl + 1}

\* The results of calculate_route_adjustment for one value of street_details
\* (multipliers holds the multiplier of each detail).
adjustment_of(details) ==
    IF Len(details) = 0 THEN {IdentityAdjustment}
    ELSE {[multiplier |-> m,
           confidence |-> confidence_of(Len(details)),
           streets_matched |-> Len(details),
           street_details |-> details] :
             m \in round_3(SumSeq([i \in 1..Len(details) |-> details[i].multiplier]),
                           Len(details))}

\* TrafficData.calculate_route_adjustment: the results it can return.
calculate_route_adjustment(df, index, route_steps) ==
    IF Len(route_steps) = 0 THEN {IdentityAdjustment}
    ELSE UNION {adjustment_of(d) : d \in route_details(df, index, route_steps)}

(***************************************************************************)
(* Search and statistics.                                                   *)
(***************************************************************************)

\* The dict search_streets appends for one entry.
search_match(df, index, entry) ==
    [street_name |-> entry.street_name,
     avg_count |-> RoundHalfEven(entry.avg_count),
     traffic_level |-> get_traffic_level(df, index, entry.street_name).level,
     sample_size |-> entry.sample_size]

\* search_key_less of a sort by the count alone.
search_key_count_only(query, x, y) == -x.avg_count < -y.avg_count

\* The sort key of matches.sort: x sorts before y exactly if x's key is smaller.
search_key_less(query, x, y) ==
    LET kx == IF str_startswith(x.street_name, query) THEN 0 ELSE 1
        ky == IF str_startswith(y.street_name, query) THEN 0 ELSE 1
    IN  kx < ky \/ (kx = ky /\ -x.avg_count < -y.avg_count)

RECURSIVE stable_insert(_, _, _)
\* q, sorted, with x put after every element that does not sort after it.
stable_insert(query, q, x) ==
    IF Len(q) = 0 THEN <<x>>
    ELSE IF search_key_less(query, x, q[Len(q)])
         THEN Append(stable_insert(query, SubSeq(q, 1, Len(q) - 1), x), q[Len(q)])
         ELSE Append(q, x)

\* matches.sort(key=...): list.sort is stable.
sort_matches(query, matches) ==
    LET F[i \in 0..Len(matches)] ==
            IF i = 0 THEN << >> ELSE stable_insert(query, F[i - 1], matches[i])
    IN  F[Len(matches)]

\* q[:limit], of a list.
slice_to(q, limit) ==
    LET stop == IF limit >= 0 THEN (IF limit < Len(q) THEN limit ELSE Len(q))
                ELSE (IF Len(q) + limit > 0 THEN Len(q) + limit ELSE 0)
    IN  SubSeq(q, 1, stop)

\* TrafficData.search_streets
search_streets(df, index, query, limit) ==
    IF df_empty(df) \/ query = "" THEN << >>
    ELSE LET up == str_upper(query)
             F[i \in 0..Len(index)] ==
                 IF i = 0 THEN << >>
                 ELSE IF str_in(up, index[i].street_name)
                      THEN Append(F[i - 1], search_match(df, index, index[i]))
                      ELSE F[i - 1]
         IN  slice_to(sort_matches(up, F[Len(index)]), limit)

\* TrafficData.get_stats; a date is NaT when no row has one.
get_stats(df, index) ==
    IF df_empty(df) THEN [status |-> "no_data"]
    ELSE LET counts == {df.rows[i].total_count : i \in 1..Len(df.rows)}
             dates == {df.rows[i].date_count : i \in 1..Len(df.rows)} \ {NaT}
         IN  [status |-> "ok",
              total_records |-> Len(df.rows),
              unique_streets |-> Len(index),
              avg_traffic_count |-> RoundHalfEven(mean_count(df, 1..Len(df.rows))),
              max_traffic_count |-> CHOOSE c \in counts : \A x \in counts : x <= c,
              min_traffic_count |-> CHOOSE c \in counts : \A x \in counts : c <= x,
              has_date_range |-> "date_count" \in df.columns,
              earliest |-> IF dates = {} THEN NaT ELSE CHOOSE d \in dates : \A x \in dates : d <= x,
              latest |-> IF dates = {} THEN NaT ELSE CHOOSE d \in dates : \A x \in dates : x <= d]

(***************************************************************************)
(* The inputs: the dataset files, and the arguments of the read calls.      *)
(***************************************************************************)

\* The most rows of a generated dataset file.
MaxRows == 4

\* The most steps of a route.
MaxSteps == 2

\* The largest limit of a search.
MaxLimit == 2

\* The total_count of the i-th row of a generated file.
SynthCounts == <<5000, 20000, 1000, 9000, 30000, 12000, 2000>>

\* The raw total_count cells around every threshold, and the malformed ones.
CountCells ==
    {NumCell(v) : v \in {-5, 0, 2999, 3000, 7999, 8000, 14999, 15000, 24999, 25000}}
        \cup {BlankCell, TextCell}

\* The raw street_name cells: spellings of one street, related names, blank cells.
StreetCells == {"MAIN ST", "Main Street", " main  st ", "MAIN", "E ST", "ELM AV", "", "  "}

AllColumns == {"street_name", "total_count", "date_count", "limits"}

CsvFile(columns, rows) == [kind |-> "csv", columns |-> columns, rows |-> rows]

RawRow(street, count, date) == [street_name |-> street, total_count |-> count, date_count |-> date]

\* Files that do not load: no file, an unreadable one, a required column missing.
FailingFiles ==
    {[kind |-> "missing", columns |-> {}, rows |-> << >>],
     [kind |-> "unreadable", columns |-> {}, rows |-> << >>]}
        \cup {CsvFile(AllColumns \ {c}, <<RawRow("MAIN ST", NumCell(5000), 1)>>) :
                 c \in {"street_name", "total_count"}}

\* The numbers among the raw count cells.
CountValues == {c.v : c \in {x \in CountCells : x.t = "num"}}

\* One record of one street with every raw count cell, or two records with two
\* different numbers (their mean may be a half); no date column.
ThresholdFiles ==
    {CsvFile({"street_name", "total_count"}, <<RawRow("MAIN ST", c, NaT)>>) : c \in CountCells}
        \cup {CsvFile({"street_name", "total_count"},
                      <<RawRow("MAIN ST", NumCell(w[1]), NaT), RawRow("MAIN ST", NumCell(w[2]), NaT)>>) :
                 w \in {v \in CountValues \X CountValues : v[1] < v[2]}}

\* One or two records with every raw street cell; no date column.
NameFiles ==
    {CsvFile({"street_name", "total_count"}, <<RawRow(a, NumCell(SynthCounts[1]), NaT)>>) :
        a \in StreetCells}
        \cup {CsvFile({"street_name", "total_count"},
                      <<RawRow(a, NumCell(SynthCounts[1]), NaT),
                        RawRow(b, NumCell(SynthCounts[2]), NaT)>>) :
                 a \in StreetCells, b \in StreetCells}

\* Up to MaxRows records of two streets with a date column: every way to give
\* each record a street and a date (NaT, day 1 or day 2).
DatedFiles ==
    UNION {{CsvFile(AllColumns,
                    [i \in 1..n |-> RawRow(st[i], NumCell(SynthCounts[i]), dt[i])]) :
               st \in [1..n -> {"MAIN ST", "ELM AV"}], dt \in [1..n -> {NaT, 1, 2}]} :
           n \in 0..MaxRows}

\* The same records without the date column.
UndatedFiles ==
    UNION {{CsvFile({"street_name", "total_count"},
                    [i \in 1..n |-> RawRow(st[i], NumCell(SynthCounts[i]), NaT)]) :
               st \in [1..n -> {"MAIN ST", "ELM AV"}]} :
           n \in 0..MaxRows}

\* The contents the file at csv_path can have.
Files == FailingFiles \cup ThresholdFiles \cup NameFiles \cup DatedFiles \cup UndatedFiles

\* The files of the engines that serve requests in the model.
ServedFiles == FailingFiles \cup ThresholdFiles \cup NameFiles

\* The street names classify is called with.
Queries ==
    {"", "  ", "MAIN ST", "main street", "Main", "ELM AV", "OAK DR", "E ST", "nan"}

\* The steps of a route: a step without instruction, and one with each instruction.
StepChoices ==
    {[has_instruction |-> FALSE, instruction |-> ""]}
        \cup {[has_instruction |-> TRUE, instruction |-> s] : s \in Instructions}

\* The routes calculate_route_adjustment is called with.
Routes == UNION {[1..n -> StepChoices] : n \in 0..MaxSteps}

\* The queries of search_streets.
SearchQueries == {"", "main", "ST", "E", "OAK"}

\* The most pieces of a street name given to the normalizer.
MaxPieces == 3

\* The pieces of the names: words in several cases, suffix words in full and
\* abbreviated, a word that contains a suffix word, whitespace and a hyphen.
NamePieces ==
    {"Main", "Street", "STREET", "ST", "road", "Rd", "STREETSVILLE", " ", "  ", "-"}

\* Two longer names: a name with spaces around and between its words, and a name
\* whose first word contains a suffix word.
LongNames ==
    {<<" ", "Main", "  ", " ", "Street", " ">>, <<"STREETSVILLE", " ", "RD">>}

\* The names of a street: up to MaxPieces pieces, and the longer names.
PieceSeqs == UNION {[1..n -> NamePieces] : n \in 0..MaxPieces} \cup LongNames

RECURSIVE ConcatPieces(_)
\* The string a sequence of pieces spells.
ConcatPieces(pieces) ==
    IF Len(pieces) = 0 THEN "" ELSE Head(pieces) \o ConcatPieces(Tail(pieces))

(***************************************************************************)
(* The engine: the state of the TrafficData singleton and its operations.   *)
(***************************************************************************)

VARIABLES
    csv_file,      \* the content of the file at csv_path
    eng_pc,        \* "new", "loaded", "building" or "ready"
    traffic_df,    \* self.traffic_df
    street_index,  \* self.street_index
    build_todo,    \* the street names the loop of _build_street_index has yet to visit
    published,     \* traffic_data_instance is bound: requests can reach the engine
    result         \* the last read call: its operation, arguments and return value

engine_vars == <<csv_file, eng_pc, traffic_df, street_index, build_todo, published, result>>

\* The account of one user: the clock, the user's role, the subscriptions row and
\* the route_usage rows of the user, and the route requests in progress.
VARIABLES
    now,           \* the time, in days: datetime.utcnow() and date.today()
    user_role,     \* user.role
    subscription,  \* the row of the user in subscriptions
    response,      \* the last response of a subscription endpoint
    usage,         \* the rows of the user in route_usage: the count of each day
    requests,      \* the route requests being handled, one per worker
    started        \* the number of route requests begun

account_vars == <<now, user_role, subscription, response, usage, requests, started>>

\* The subscription requests of the user and their payments, and the calls of
\* the endpoints that handle them.
VARIABLES
    subscription_requests,  \* the rows of the user in subscription_requests; the id is the position
    payment_history,        \* the rows of payment_history that carry a request_id
    calls                   \* the calls being handled, one per worker

billing_vars == <<subscription_requests, payment_history, calls>>

\* The saved locations of the user and the calls of /api/saved_locations.
VARIABLES
    saved_locations,  \* the number of rows of the user in saved_locations
    posts             \* the calls being handled, one per worker

location_vars == <<saved_locations, posts>>

\* The checkout session of the user at Stripe and what the backend has made of it.
VARIABLES
    checkout,         \* the checkout session: its metadata and payment_status
    stripe_payments,  \* the rows of payment_history that carry a payment intent
    stripe_done,      \* the webhook deliveries and verify calls processed so far
    stripe_response   \* the last response of a Stripe endpoint

stripe_vars == <<checkout, stripe_payments, stripe_done, stripe_response>>

\* What the engine and the account's own actions leave alone.
service_vars == <<billing_vars, location_vars, stripe_vars>>

NoResult == [op |-> "none"]

\* The process starts: nothing loaded yet.
EngineNew ==
    /\ csv_file \in Files
    /\ eng_pc = "new"
    /\ traffic_df = EmptyFrame
    /\ street_index = << >>
    /\ build_todo = << >>
    /\ published = FALSE
    /\ result = NoResult

\* TrafficData.__init__, first statement: self.traffic_df = self._load_data(csv_path).
LoadData ==
    /\ eng_pc = "new"
    /\ traffic_df' = load_data(csv_file)
    /\ eng_pc' = "loaded"
    /\ UNCHANGED <<csv_file, street_index, build_todo, published, result>>
    /\ UNCHANGED account_vars
    /\ UNCHANGED service_vars

\* BuildBegin on an engine that is bound to traffic_data_instance before its index is built.
BuildBeginPublished ==
    /\ street_index' = << >>
    /\ published' = TRUE
    /\ IF df_empty(traffic_df)
       THEN eng_pc' = "ready" /\ build_todo' = << >>
       ELSE eng_pc' = "building" /\ build_todo' = unique_street_names(traffic_df)
    /\ UNCHANGED <<csv_file, traffic_df, result>>
    /\ UNCHANGED account_vars
    /\ UNCHANGED service_vars

\* _build_street_index up to the loop: self.street_index = {} in both branches.
BuildBegin ==
    /\ street_index' = << >>
    /\ IF df_empty(traffic_df)
       THEN eng_pc' = "ready" /\ build_todo' = << >> /\ published' = TRUE
       ELSE eng_pc' = "building" /\ build_todo' = unique_street_names(traffic_df)
            /\ UNCHANGED published
    /\ UNCHANGED <<csv_file, traffic_df, result>>
    /\ UNCHANGED account_vars
    /\ UNCHANGED service_vars

\* One pass of the loop of _build_street_index; after the last one the call
\* returns and, at construction, the module binds traffic_data_instance.
BuildStep ==
    /\ eng_pc = "building"
    /\ \E e \in index_entries(traffic_df, Head(build_todo)) :
           street_index' = Append(street_index, e)
    /\ build_todo' = Tail(build_todo)
    /\ IF Len(build_todo) = 1
       THEN eng_pc' = "ready" /\ published' = TRUE
       ELSE UNCHANGED <<eng_pc, published>>
    /\ UNCHANGED <<csv_file, traffic_df, result>>
    /\ UNCHANGED account_vars
    /\ UNCHANGED service_vars

\* TrafficData.__init__, second statement.
ConstructIndex == eng_pc = "loaded" /\ BuildBegin

\* The index with the count found for a name stored under that name.
index_with(index, normalized, count) ==
    IF count = NoCount \/ normalized \in index_keys(index) THEN index
    ELSE Append(index, [street_name |-> normalized, avg_count |-> count,
                        max_count |-> 0, min_count |-> 0, sample_size |-> 0])

\* Classify with a lookup that stores the mean of a partial match in the index.
ClassifyCaching ==
    /\ published
    /\ result = NoResult
    /\ \E q \in Queries :
           /\ result' = [op |-> "classify", street_name |-> q,
                         value |-> get_traffic_level(traffic_df, street_index, q)]
           /\ street_index' = index_with(street_index, normalize_street_name(q),
                                         get_traffic_count(traffic_df, street_index, q))
    /\ UNCHANGED <<csv_file, eng_pc, traffic_df, build_todo, published>>
    /\ UNCHANGED account_vars
    /\ UNCHANGED service_vars

\* get_traffic_level called by a request.
Classify ==
    /\ published
    /\ result = NoResult
    /\ \E q \in Queries :
           result' = [op |-> "classify", street_name |-> q,
                      value |-> get_traffic_level(traffic_df, street_index, q)]
    /\ UNCHANGED <<csv_file, eng_pc, traffic_df, street_index, build_todo, published>>
    /\ UNCHANGED account_vars
    /\ UNCHANGED service_vars

\* calculate_route_adjustment called by a request.
AdjustRoute ==
    /\ published
    /\ result = NoResult
    /\ \E r \in Routes :
           \E v \in calculate_route_adjustment(traffic_df, street_index, r) :
               result' = [op |-> "adjust", route_steps |-> r, value |-> v]
    /\ UNCHANGED <<csv_file, eng_pc, traffic_df, street_index, build_todo, published>>
    /\ UNCHANGED account_vars
    /\ UNCHANGED service_vars

\* search_streets called by a request.
SearchStreets ==
    /\ published
    /\ result = NoResult
    /\ \E q \in SearchQueries, limit \in -1..MaxLimit :
           result' = [op |-> "search", query |-> q, limit |-> limit,
                      value |-> search_streets(traffic_df, street_index, q, limit)]
    /\ UNCHANGED <<csv_file, eng_pc, traffic_df, street_index, build_todo, published>>
    /\ UNCHANGED account_vars
    /\ UNCHANGED service_vars

\* get_stats called by a request.
Stats ==
    /\ published
    /\ result = NoResult
    /\ result' = [op |-> "stats", value |-> get_stats(traffic_df, street_index)]
    /\ UNCHANGED <<csv_file, eng_pc, traffic_df, street_index, build_todo, published>>
    /\ UNCHANGED account_vars
    /\ UNCHANGED service_vars

\* The request that made the call completes.
Respond ==
    /\ result # NoResult
    /\ result' = NoResult
    /\ UNCHANGED <<csv_file, eng_pc, traffic_df, street_index, build_todo, published>>
    /\ UNCHANGED account_vars
    /\ UNCHANGED service_vars

\* _normalize_street_name called with a street name (by the parser on a match,
\* by get_traffic_count on the name of a request).
NormalizeName ==
    /\ result = NoResult
    /\ \E pieces \in PieceSeqs :
           result' = [op |-> "normalize", pieces |-> pieces,
                      street_name |-> ConcatPieces(pieces),
                      value |-> normalize_street_name(ConcatPieces(pieces))]
    /\ UNCHANGED <<csv_file, eng_pc, traffic_df, street_index, build_todo, published>>
    /\ UNCHANGED account_vars
    /\ UNCHANGED service_vars

\* get_traffic_count normalizes a name the parser has normalized already.
NormalizeAgain ==
    /\ result.op = "normalize"
    /\ result' = [op |-> "normalize_again", pieces |-> result.pieces,
                  street_name |-> result.value,
                  value |-> normalize_street_name(result.value)]
    /\ UNCHANGED <<csv_file, eng_pc, traffic_df, street_index, build_todo, published>>
    /\ UNCHANGED account_vars
    /\ UNCHANGED service_vars

(***************************************************************************)
(* The account: the subscription of a user and the daily route counter.    *)
(* Time is counted in days; expires_at is a day, None is NoExpiry.  A      *)
(* request works on the RouteUsage object its session has loaded: a second *)
(* query for the same row returns that object as loaded, and a commit      *)
(* expires it, so that its next use reads the row again.                   *)
(***************************************************************************)

\* The last day of the clock.
MaxDay == 2

\* The number of workers that handle route requests.
NumRequests == 2

\* The most route requests begun in a run.
MaxStarted == 6

\* The most days an administrator grants.
MaxGrantDays == 3

\* expires_at of a subscription that does not expire (None).
NoExpiry == -1

\* No route_usage row of the user for a day.
NoRow == -1

\* The days of a subscription granted at the start of the runs of the counter.
DefaultDays == 30

\* RouteUsage.ROUTE_LIMITS
ROUTE_LIMITS == [free |-> 4, plus |-> 50, pro |-> -1, admin |-> -1]

\* The user has no row in subscriptions.
NoSubscription == [exists |-> FALSE, tier |-> "free", status |-> "active", expires_at |-> NoExpiry]

\* get_user_tier of api/subscription.py, at time t.
get_user_tier(role, sub, t) ==
    IF role = "Admin" THEN "admin"
    ELSE IF ~sub.exists THEN "free"
    ELSE IF sub.status # "active" THEN "free"
    ELSE IF sub.expires_at # NoExpiry /\ sub.expires_at < t THEN "free"
    ELSE sub.tier

\* get_user_tier of api/route.py, at time t.
route_get_user_tier(role, sub, t) ==
    IF role = "Admin" THEN "admin"
    ELSE IF ~sub.exists THEN "free"
    ELSE IF sub.status # "active" THEN "free"
    ELSE IF sub.expires_at # NoExpiry /\ sub.expires_at < t THEN "free"
    ELSE sub.tier

\* RouteUsage.get_limit_for_tier
get_limit_for_tier(tier) == ROUTE_LIMITS[tier]

\* can_use of RouteUsage.check_can_use_route, for the count of the loaded row.
can_use_route(tier, count) ==
    get_limit_for_tier(tier) = -1 \/ count < get_limit_for_tier(tier)

NoResponse == [op |-> "none", status |-> 0]

\* A worker without a request.
IdleRequest ==
    [pc |-> "idle", endpoint |-> "none", tier |-> "free", day |-> 0, count |-> 0, status |-> 0]

\* The number of workers that handle the calls of the subscription request endpoints.
NumCalls == 2

\* The most rows of the user in subscription_requests.
MaxSubRequests == 2

\* A worker without a call.  A call holds its place in the handler, the
\* endpoint, the id of the request it works on, the subscription and the
\* payment its session has loaded, and the status of its response.
IdleCall ==
    [pc |-> "idle", op |-> "none", by |-> "none", id |-> 0,
     plan |-> "none", billing_interval |-> "none",
     loaded |-> NoSubscription, payment |-> 0, payment_status |-> "none", status |-> 0]

\* No subscription request, no payment, no call.
BillingIdle ==
    /\ subscription_requests = << >>
    /\ payment_history = << >>
    /\ calls = [w \in 1..NumCalls |-> IdleCall]

\* The number of workers that handle the calls of /api/saved_locations.
NumPosts == 2

\* The most saved locations of the user in a run.
MaxLocations == 12

\* FEATURE_ACCESS['favorite_locations']
FAVORITE_LOCATIONS ==
    [allowed_tiers |-> {"plus", "pro", "admin"},
     limits |-> [free |-> 0, plus |-> 10, pro |-> -1, admin |-> -1]]

\* A worker without a call of /api/saved_locations.  A call holds its place in
\* the handler, its method, the limit it has read and the status of its response.
IdlePost == [pc |-> "idle", op |-> "none", limit |-> 0, status |-> 0]

\* No saved location, no call.
LocationsIdle ==
    /\ saved_locations = 0
    /\ posts = [w \in 1..NumPosts |-> IdlePost]

\* No checkout session.
NoCheckout ==
    [tier |-> "none", billing_interval |-> "none", payment_status |-> "unpaid", owner |-> "none"]

\* No checkout, no Stripe payment.
StripeIdle ==
    /\ checkout = NoCheckout
    /\ stripe_payments = << >>
    /\ stripe_done = [webhooks |-> 0, verifies |-> 0]
    /\ stripe_response = NoResponse

\* Nothing going on at the subscription request, saved location and Stripe endpoints.
ServicesIdle == BillingIdle /\ LocationsIdle /\ StripeIdle

\* The account with nothing going on: no subscription, no usage, no request.
AccountIdle ==
    /\ now = 1
    /\ user_role = "User"
    /\ subscription = NoSubscription
    /\ response = NoResponse
    /\ usage = [d \in 1..MaxDay |-> NoRow]
    /\ requests = [r \in 1..NumRequests |-> IdleRequest]
    /\ started = 0
    /\ ServicesIdle

\* The engine of a process whose dataset file is missing, serving.
EngineIdle ==
    /\ csv_file = [kind |-> "missing", columns |-> {}, rows |-> << >>]
    /\ eng_pc = "ready"
    /\ traffic_df = EmptyFrame
    /\ street_index = << >>
    /\ build_todo = << >>
    /\ published = TRUE
    /\ result = NoResult

\* Midnight (and, for expires_at, the passing of a day).
Tick ==
    /\ now < MaxDay
    /\ now' = now + 1
    /\ UNCHANGED <<user_role, subscription, response, usage, requests, started>>
    /\ UNCHANGED engine_vars
    /\ UNCHANGED service_vars

\* The tiers an administrator's request can name; the last one is invalid.
RequestedTiers == {"free", "plus", "pro", "gold"}

\* AdminSetSubscription.post for the user: 400 for an invalid tier; otherwise the
\* row is created or overwritten, active, expiring after the days granted.
AdminSetSubscription ==
    /\ \E tier \in RequestedTiers, days \in 1..MaxGrantDays :
           IF tier \notin {"free", "plus", "pro"}
           THEN response' = [op |-> "admin_set", status |-> 400] /\ UNCHANGED subscription
           ELSE /\ subscription' =
                       [exists |-> TRUE, tier |-> tier, status |-> "active",
                        expires_at |-> IF tier # "free" THEN now + days ELSE NoExpiry]
                /\ response' = [op |-> "admin_set", status |-> 200]
    /\ UNCHANGED <<now, user_role, usage, requests, started>>
    /\ UNCHANGED engine_vars
    /\ UNCHANGED service_vars

\* CancelSubscription.post
CancelSubscription ==
    /\ IF ~subscription.exists \/ subscription.tier = "free"
       THEN response' = [op |-> "cancel", status |-> 404] /\ UNCHANGED subscription
       ELSE IF subscription.status = "cancelled"
       THEN response' = [op |-> "cancel", status |-> 400] /\ UNCHANGED subscription
       ELSE /\ subscription' = [subscription EXCEPT !.status = "cancelled"]
            /\ response' = [op |-> "cancel", status |-> 200]
    /\ UNCHANGED <<now, user_role, usage, requests, started>>
    /\ UNCHANGED engine_vars
    /\ UNCHANGED service_vars

\* The two endpoints that count a route.
RouteEndpoints == {"get_routes", "increment"}

\* _GetRoutes.post and RouteUsageIncrement.post up to the call of
\* check_can_use_route: a worker takes a request and reads the user's tier.
BeginRequest(r) ==
    /\ requests[r].pc = "idle"
    /\ started < MaxStarted
    /\ \E endpoint \in RouteEndpoints :
           requests' = [requests EXCEPT ![r] =
               [pc |-> "check_query", endpoint |-> endpoint,
                tier |-> IF endpoint = "get_routes"
                         THEN route_get_user_tier(user_role, subscription, now)
                         ELSE get_user_tier(user_role, subscription, now),
                day |-> 0, count |-> 0, status |-> 0]]
    /\ started' = started + 1
    /\ UNCHANGED <<now, user_role, subscription, response, usage>>
    /\ UNCHANGED engine_vars
    /\ UNCHANGED service_vars

\* RouteUsage.get_today_usage up to the test of the query's result, in
\* check_can_use_route or before the increment: today's row is loaded, unless the
\* session holds it already, and is to be created when there is none.
QueryUsage(r) ==
    /\ requests[r].pc \in {"check_query", "inc_query"}
    /\ requests' = [requests EXCEPT ![r] =
           IF usage[now] = NoRow
           THEN [@ EXCEPT !.pc = IF @ = "check_query" THEN "check_create" ELSE "inc_create",
                          !.day = now]
           ELSE IF requests[r].day = now
           THEN [@ EXCEPT !.pc = IF @ = "check_query" THEN "decide" ELSE "inc_write"]
           ELSE [@ EXCEPT !.pc = IF @ = "check_query" THEN "decide" ELSE "inc_write",
                          !.day = now, !.count = usage[now]]]
    /\ UNCHANGED <<now, user_role, subscription, response, usage, started>>
    /\ UNCHANGED engine_vars
    /\ UNCHANGED service_vars

\* usage.create() in get_today_usage: the insert fails on unique_user_date when
\* another request has created the row since the query, and the request ends
\* with 500; otherwise the row is committed and the object expired.
CreateUsage(r) ==
    /\ requests[r].pc \in {"check_create", "inc_create"}
    /\ IF usage[requests[r].day] # NoRow
       THEN /\ requests' = [requests EXCEPT ![r] = [@ EXCEPT !.pc = "done", !.status = 500]]
            /\ UNCHANGED usage
       ELSE /\ usage' = [usage EXCEPT ![requests[r].day] = 0]
            /\ requests' = [requests EXCEPT ![r] =
                   [@ EXCEPT !.pc = IF @ = "check_create" THEN "check_load" ELSE "inc_load"]]
    /\ UNCHANGED <<now, user_role, subscription, response, started>>
    /\ UNCHANGED engine_vars
    /\ UNCHANGED service_vars

\* The first use of the count of a row just created reads the row again.
LoadUsage(r) ==
    /\ requests[r].pc \in {"check_load", "inc_load"}
    /\ requests' = [requests EXCEPT ![r] =
           [@ EXCEPT !.pc = IF @ = "check_load" THEN "decide" ELSE "inc_write",
                     !.count = usage[requests[r].day]]]
    /\ UNCHANGED <<now, user_role, subscription, response, usage, started>>
    /\ UNCHANGED engine_vars
    /\ UNCHANGED service_vars

\* The end of check_can_use_route and the test of can_use: 429 at the limit.
Decide(r) ==
    /\ requests[r].pc = "decide"
    /\ requests' = [requests EXCEPT ![r] =
           IF ~can_use_route(requests[r].tier, requests[r].count)
           THEN [@ EXCEPT !.pc = "done", !.status = 429]
           ELSE [@ EXCEPT !.pc = IF requests[r].endpoint = "get_routes" THEN "work"
                                 ELSE "inc_query"]]
    /\ UNCHANGED <<now, user_role, subscription, response, usage, started>>
    /\ UNCHANGED engine_vars
    /\ UNCHANGED service_vars

\* _GetRoutes.post between the check and the increment: the body is validated and
\* the directions are fetched and adjusted; the request ends here with 400, 404
\* or 500, or goes on to count the route.
Work(r) ==
    /\ requests[r].pc = "work"
    /\ \E outcome \in {200, 400, 404, 500} :
           requests' = [requests EXCEPT ![r] =
               IF outcome = 200 THEN [@ EXCEPT !.pc = "inc_query"]
               ELSE [@ EXCEPT !.pc = "done", !.status = outcome]]
    /\ UNCHANGED <<now, user_role, subscription, response, usage, started>>
    /\ UNCHANGED engine_vars
    /\ UNCHANGED service_vars

\* RouteUsage.increment: the loaded count plus one is committed; 200 follows.
WriteUsage(r) ==
    /\ requests[r].pc = "inc_write"
    /\ usage' = [usage EXCEPT ![requests[r].day] = requests[r].count + 1]
    /\ requests' = [requests EXCEPT ![r] =
           [@ EXCEPT !.pc = "done", !.count = @ + 1, !.status = 200]]
    /\ UNCHANGED <<now, user_role, subscription, response, started>>
    /\ UNCHANGED engine_vars
    /\ UNCHANGED service_vars

\* The response is sent and the session of the request removed.
Finish(r) ==
    /\ requests[r].pc = "done"
    /\ requests' = [requests EXCEPT ![r] = IdleRequest]
    /\ UNCHANGED <<now, user_role, subscription, response, usage, started>>
    /\ UNCHANGED engine_vars
    /\ UNCHANGED service_vars

(***************************************************************************)
(* The subscription requests.  A user submits a request after paying; an   *)
(* administrator approves or rejects it, the user can withdraw it.  Every   *)
(* query and every commit of a handler is a step; between them a call holds *)
(* what its session has loaded, and a commit writes the columns the handler *)
(* has changed on the loaded object.                                        *)
(***************************************************************************)

\* timedelta(days=365) and timedelta(days=30) of the approval.
YearlyDays == 365

MonthlyDays == 30

\* The plans a submission can name; the last one is invalid.
RequestedPlans == {"plus", "pro", "gold"}

\* SubscriptionRequest.query.filter_by(_user_id=user.id, _status='pending').first():
\* the id of the first pending request of the user, 0 when there is none.
first_pending(rows) ==
    IF \E i \in 1..Len(rows) : rows[i].status = "pending"
    THEN CHOOSE i \in 1..Len(rows) :
             /\ rows[i].status = "pending"
             /\ \A j \in 1..(i - 1) : rows[j].status # "pending"
    ELSE 0

\* PaymentHistory.query.filter_by(_request_id=id).first(): the position of the
\* first payment of the request, 0 when there is none.
first_payment(payments, id) ==
    IF \E i \in 1..Len(payments) : payments[i].request_id = id
    THEN CHOOSE i \in 1..Len(payments) :
             /\ payments[i].request_id = id
             /\ \A j \in 1..(i - 1) : payments[j].request_id # id
    ELSE 0

\* The submissions being handled.
SubmitsInFlight == {w \in 1..NumCalls : calls[w].op = "submit" /\ calls[w].pc # "done"}

\* The call of worker w ends with a status.
EndCall(w, status) ==
    calls' = [calls EXCEPT ![w] = [@ EXCEPT !.pc = "done", !.status = status]]

\* SubscriptionRequestEndpoint.post up to the query for a pending request: the
\* body is validated (400 for an invalid plan), and a user with an active paid
\* subscription that has not expired is refused with 400.
BeginSubmit(w) ==
    /\ calls[w].pc = "idle"
    /\ Len(subscription_requests) + Cardinality(SubmitsInFlight) < MaxSubRequests
    /\ \E plan \in RequestedPlans, interval \in {"monthly", "yearly"} :
           calls' = [calls EXCEPT ![w] =
               IF plan \notin {"plus", "pro"}
               THEN [IdleCall EXCEPT !.pc = "done", !.op = "submit", !.status = 400]
               ELSE IF /\ subscription.exists
                       /\ subscription.tier \in {"plus", "pro"}
                       /\ subscription.status = "active"
                       /\ subscription.expires_at # NoExpiry
                       /\ subscription.expires_at > now
               THEN [IdleCall EXCEPT !.pc = "done", !.op = "submit", !.status = 400]
               ELSE [IdleCall EXCEPT !.pc = "check_pending", !.op = "submit",
                                     !.plan = plan, !.billing_interval = interval]]
    /\ UNCHANGED <<subscription_requests, payment_history>>
    /\ UNCHANGED <<engine_vars, account_vars, location_vars, stripe_vars>>

\* The query for a pending request of the user and its test: 400 when one exists.
CheckPending(w) ==
    /\ calls[w].pc = "check_pending"
    /\ IF first_pending(subscription_requests) # 0
       THEN EndCall(w, 400)
       ELSE calls' = [calls EXCEPT ![w] = [@ EXCEPT !.pc = "create_request"]]
    /\ UNCHANGED <<subscription_requests, payment_history>>
    /\ UNCHANGED <<engine_vars, account_vars, location_vars, stripe_vars>>

\* sub_request.create(): the request is inserted, pending, and committed.
CreateRequest(w) ==
    /\ calls[w].pc = "create_request"
    /\ subscription_requests' =
           Append(subscription_requests,
                  [plan |-> calls[w].plan, billing_interval |-> calls[w].billing_interval,
                   status |-> "pending"])
    /\ calls' = [calls EXCEPT ![w] =
           [@ EXCEPT !.pc = "create_payment", !.id = Len(subscription_requests) + 1]]
    /\ UNCHANGED payment_history
    /\ UNCHANGED <<engine_vars, account_vars, location_vars, stripe_vars>>

\* payment.create(): the pending payment of the request is inserted; 201 follows.
CreatePayment(w) ==
    /\ calls[w].pc = "create_payment"
    /\ payment_history' =
           Append(payment_history,
                  [request_id |-> calls[w].id, status |-> "pending", subscription_id |-> 0])
    /\ EndCall(w, 201)
    /\ UNCHANGED subscription_requests
    /\ UNCHANGED <<engine_vars, account_vars, location_vars, stripe_vars>>

\* CancelPendingRequest.delete up to the update: 404 without a pending request.
BeginCancelRequest(w) ==
    /\ calls[w].pc = "idle"
    /\ calls' = [calls EXCEPT ![w] =
           IF first_pending(subscription_requests) = 0
           THEN [IdleCall EXCEPT !.pc = "done", !.op = "cancel_request", !.status = 404]
           ELSE [IdleCall EXCEPT !.pc = "write_request", !.op = "cancel_request",
                                 !.id = first_pending(subscription_requests)]]
    /\ UNCHANGED <<subscription_requests, payment_history>>
    /\ UNCHANGED <<engine_vars, account_vars, location_vars, stripe_vars>>

\* The ids an administrator's call can name: 0 is a missing id, the last one is
\* of no request.
RequestIds == 0..(MaxSubRequests + 1)

\* AdminApproveRequest.post, AdminRejectRequest.post (the id in the body) and
\* AdminApproveRequestById.put, AdminRejectRequestById.put (the id in the URL) up
\* to the update: 400 without an id in the body, 404 when no request has the id,
\* 400 when the request is not pending.
BeginProcess(w) ==
    /\ calls[w].pc = "idle"
    /\ \E op \in {"approve", "reject"}, by \in {"body", "url"}, id \in RequestIds :
           calls' = [calls EXCEPT ![w] =
               IF by = "body" /\ id = 0
               THEN [IdleCall EXCEPT !.pc = "done", !.op = op, !.by = by, !.status = 400]
               ELSE IF id \notin 1..Len(subscription_requests)
               THEN [IdleCall EXCEPT !.pc = "done", !.op = op, !.by = by, !.id = id,
                                     !.status = 404]
               ELSE IF subscription_requests[id].status # "pending"
               THEN [IdleCall EXCEPT !.pc = "done", !.op = op, !.by = by, !.id = id,
                                     !.status = 400]
               ELSE [IdleCall EXCEPT !.pc = "write_request", !.op = op, !.by = by, !.id = id]]
    /\ UNCHANGED <<subscription_requests, payment_history>>
    /\ UNCHANGED <<engine_vars, account_vars, location_vars, stripe_vars>>

\* sub_request.update() and pending_request.update(): the status set on the
\* loaded request is committed, approved by an approval, rejected otherwise.
WriteRequest(w) ==
    /\ calls[w].pc = "write_request"
    /\ subscription_requests' =
           [subscription_requests EXCEPT ![calls[w].id] =
               [@ EXCEPT !.status = IF calls[w].op = "approve" THEN "approved" ELSE "rejected"]]
    /\ calls' = [calls EXCEPT ![w] =
           [@ EXCEPT !.pc = IF calls[w].op = "approve" THEN "read_subscription"
                            ELSE "read_payment",
                     !.plan = subscription_requests[calls[w].id].plan,
                     !.billing_interval = subscription_requests[calls[w].id].billing_interval]]
    /\ UNCHANGED payment_history
    /\ UNCHANGED <<engine_vars, account_vars, location_vars, stripe_vars>>

\* Subscription.query.filter_by(_user_id=sub_request.user_id).first() of an approval.
ReadSubscription(w) ==
    /\ calls[w].pc = "read_subscription"
    /\ calls' = [calls EXCEPT ![w] =
           [@ EXCEPT !.pc = "write_subscription", !.loaded = subscription]]
    /\ UNCHANGED <<subscription_requests, payment_history>>
    /\ UNCHANGED <<engine_vars, account_vars, location_vars, stripe_vars>>

\* The days an approval grants.
granted_days(billing_interval) ==
    IF billing_interval = "yearly" THEN YearlyDays ELSE MonthlyDays

\* The row after the commit of the columns an approval has changed on the
\* subscription it loaded.
updated_subscription(row, loaded, plan, expires_at) ==
    [exists |-> TRUE,
     tier |-> IF loaded.tier # plan THEN plan ELSE row.tier,
     status |-> IF loaded.status # "active" THEN "active" ELSE row.status,
     expires_at |-> IF loaded.expires_at # expires_at THEN expires_at ELSE row.expires_at]

\* The commit of the subscription of an approval: a new row when the query
\* found none, which fails on the unique user_id when a row exists by now (the
\* call ends with 500); otherwise the update of the loaded row.
WriteSubscription(w) ==
    /\ calls[w].pc = "write_subscription"
    /\ IF ~calls[w].loaded.exists /\ subscription.exists
       THEN EndCall(w, 500) /\ UNCHANGED subscription
       ELSE /\ subscription' =
                   IF ~calls[w].loaded.exists
                   THEN [exists |-> TRUE, tier |-> calls[w].plan, status |-> "active",
                         expires_at |-> now + granted_days(calls[w].billing_interval)]
                   ELSE updated_subscription(subscription, calls[w].loaded, calls[w].plan,
                                             now + granted_days(calls[w].billing_interval))
            /\ calls' = [calls EXCEPT ![w] = [@ EXCEPT !.pc = "read_payment"]]
    /\ UNCHANGED <<subscription_requests, payment_history>>
    /\ UNCHANGED <<now, user_role, response, usage, requests, started>>
    /\ UNCHANGED <<engine_vars, location_vars, stripe_vars>>

\* PaymentHistory.query.filter_by(_request_id=...).first(): without a payment
\* the call ends with 200.
ReadPayment(w) ==
    /\ calls[w].pc = "read_payment"
    /\ IF first_payment(payment_history, calls[w].id) = 0
       THEN EndCall(w, 200)
       ELSE calls' = [calls EXCEPT ![w] =
                [@ EXCEPT !.pc = "write_payment",
                          !.payment = first_payment(payment_history, calls[w].id),
                          !.payment_status =
                              payment_history[first_payment(payment_history, calls[w].id)].status]]
    /\ UNCHANGED <<subscription_requests, payment_history>>
    /\ UNCHANGED <<engine_vars, account_vars, location_vars, stripe_vars>>

\* The status a call gives the payment of its request.
payment_target(op) == IF op = "approve" THEN "paid" ELSE "rejected"

\* The commit of the payment: the status when the handler has changed it on the
\* loaded payment, and the subscription of an approval; 200 follows.
WritePayment(w) ==
    /\ calls[w].pc = "write_payment"
    /\ payment_history' =
           [payment_history EXCEPT ![calls[w].payment] =
               [@ EXCEPT !.status = IF calls[w].payment_status # payment_target(calls[w].op)
                                    THEN payment_target(calls[w].op) ELSE @,
                         !.subscription_id = IF calls[w].op = "approve" THEN 1 ELSE @]]
    /\ EndCall(w, 200)
    /\ UNCHANGED subscription_requests
    /\ UNCHANGED <<engine_vars, account_vars, location_vars, stripe_vars>>

\* The response is sent and the session of the call removed.
FinishCall(w) ==
    /\ calls[w].pc = "done"
    /\ calls' = [calls EXCEPT ![w] = IdleCall]
    /\ UNCHANGED <<subscription_requests, payment_history>>
    /\ UNCHANGED <<engine_vars, account_vars, location_vars, stripe_vars>>

(***************************************************************************)
(* The saved locations.  POST creates a location of the user, DELETE       *)
(* removes one; both stand behind requires_feature('favorite_locations').  *)
(* Every query and every commit of a handler is a step.                    *)
(***************************************************************************)

\* get_feature_limit(user, 'favorite_locations') at time t.
get_feature_limit(role, sub, t) == FAVORITE_LOCATIONS.limits[get_user_tier(role, sub, t)]

\* The calls that have yet to create their location.
PostsInFlight == {w \in 1..NumPosts : posts[w].op = "post" /\ posts[w].pc # "done"}

\* requires_feature('favorite_locations') in front of _CRUD.post and _CRUD.delete:
\* 403 when the user's tier is not allowed.
BeginLocation(w) ==
    /\ posts[w].pc = "idle"
    /\ \E op \in {"post", "delete"} :
           /\ op = "post" => saved_locations + Cardinality(PostsInFlight) < MaxLocations
           /\ posts' = [posts EXCEPT ![w] =
                  IF get_user_tier(user_role, subscription, now)
                         \notin FAVORITE_LOCATIONS.allowed_tiers
                  THEN [IdlePost EXCEPT !.pc = "done", !.op = op, !.status = 403]
                  ELSE [IdlePost EXCEPT !.pc = IF op = "post" THEN "limit" ELSE "delete",
                                        !.op = op]]
    /\ UNCHANGED saved_locations
    /\ UNCHANGED <<engine_vars, account_vars, billing_vars, stripe_vars>>

\* _CRUD.post reads the limit of the user's tier; only a limit above 0 is checked.
ReadLimit(w) ==
    /\ posts[w].pc = "limit"
    /\ posts' = [posts EXCEPT ![w] =
           [@ EXCEPT !.limit = get_feature_limit(user_role, subscription, now),
                     !.pc = IF get_feature_limit(user_role, subscription, now) > 0
                            THEN "count" ELSE "create"]]
    /\ UNCHANGED saved_locations
    /\ UNCHANGED <<engine_vars, account_vars, billing_vars, stripe_vars>>

\* The count of the user's locations and its test: 403 at the limit.
CountLocations(w) ==
    /\ posts[w].pc = "count"
    /\ IF saved_locations >= posts[w].limit
       THEN posts' = [posts EXCEPT ![w] = [@ EXCEPT !.pc = "done", !.status = 403]]
       ELSE posts' = [posts EXCEPT ![w] = [@ EXCEPT !.pc = "create"]]
    /\ UNCHANGED saved_locations
    /\ UNCHANGED <<engine_vars, account_vars, billing_vars, stripe_vars>>

\* post.create(): the location is inserted; 200 follows.
CreateLocation(w) ==
    /\ posts[w].pc = "create"
    /\ saved_locations' = saved_locations + 1
    /\ posts' = [posts EXCEPT ![w] = [@ EXCEPT !.pc = "done", !.status = 200]]
    /\ UNCHANGED <<engine_vars, account_vars, billing_vars, stripe_vars>>

\* _CRUD.delete: the location with the id of the body is deleted; with an id of
\* no location, post is None and the call ends with 500.
DeleteLocation(w) ==
    /\ posts[w].pc = "delete"
    /\ \/ /\ saved_locations > 0
          /\ saved_locations' = saved_locations - 1
          /\ posts' = [posts EXCEPT ![w] = [@ EXCEPT !.pc = "done", !.status = 200]]
       \/ /\ posts' = [posts EXCEPT ![w] = [@ EXCEPT !.pc = "done", !.status = 500]]
          /\ UNCHANGED saved_locations
    /\ UNCHANGED <<engine_vars, account_vars, billing_vars, stripe_vars>>

\* The response is sent.
FinishLocation(w) ==
    /\ posts[w].pc = "done"
    /\ posts' = [posts EXCEPT ![w] = IdlePost]
    /\ UNCHANGED saved_locations
    /\ UNCHANGED <<engine_vars, account_vars, billing_vars, stripe_vars>>

(***************************************************************************)
(* The Stripe payments.  A checkout session carries the user, the tier and *)
(* the billing interval in its metadata.  Stripe delivers the event         *)
(* checkout.session.completed to the webhook, possibly more than once, and *)
(* the frontend calls verify with the id of the session.                   *)
(***************************************************************************)

\* The most deliveries of the event of a checkout session.
MaxDeliveries == 2

\* The most verify calls handled in a run.
MaxVerifies == 2

\* The subscription activated for a checkout session at time t.
activated_subscription(session, t) ==
    [exists |-> TRUE, tier |-> session.tier, status |-> "active",
     expires_at |-> t + (IF session.billing_interval = "yearly" THEN YearlyDays
                         ELSE MonthlyDays)]

\* The paid payment of a checkout session, with its payment intent.
session_payment == [status |-> "paid", payment_intent |-> 1]

\* _record_payment and payment.create(): the payment is inserted.
record_payment(payments) == Append(payments, session_payment)

\* PaymentHistory.query.filter_by(_user_id=..., _stripe_payment_intent_id=...).first()
\* finds a payment of the session.
existing_payment(payments) ==
    \E i \in 1..Len(payments) : payments[i].payment_intent = session_payment.payment_intent

\* stripe_webhook for checkout.session.completed of the user's session:
\* _handle_checkout_completed activates the subscription, created when there is
\* none, and records a payment; 200 follows.
StripeWebhook ==
    /\ checkout.owner = "user"
    /\ checkout.payment_status = "paid"
    /\ stripe_done.webhooks < MaxDeliveries
    /\ subscription' = activated_subscription(checkout, now)
    /\ stripe_payments' = record_payment(stripe_payments)
    /\ stripe_done' = [stripe_done EXCEPT !.webhooks = @ + 1]
    /\ stripe_response' = [op |-> "webhook", status |-> 200]
    /\ UNCHANGED checkout
    /\ UNCHANGED <<now, user_role, response, usage, requests, started>>
    /\ UNCHANGED <<engine_vars, billing_vars, location_vars>>

\* VerifySession.get: 400 without a session id, 403 for a session of another
\* user, 400 for a session that is not paid.  Otherwise a subscription with
\* another tier is activated and the payment recorded unless one with the
\* payment intent exists, a missing subscription is created and the payment
\* recorded, and a subscription with the tier of the session is left as it is;
\* 200 follows.
VerifySession ==
    /\ stripe_done.verifies < MaxVerifies
    /\ \E given \in BOOLEAN :
           IF ~given
           THEN /\ stripe_response' = [op |-> "verify", status |-> 400]
                /\ UNCHANGED <<subscription, stripe_payments, stripe_done>>
           ELSE IF checkout.owner # "user"
           THEN /\ stripe_response' = [op |-> "verify", status |-> 403]
                /\ UNCHANGED <<subscription, stripe_payments, stripe_done>>
           ELSE IF checkout.payment_status # "paid"
           THEN /\ stripe_response' = [op |-> "verify", status |-> 400]
                /\ UNCHANGED <<subscription, stripe_payments, stripe_done>>
           ELSE /\ IF subscription.exists /\ subscription.tier # checkout.tier
                   THEN /\ subscription' = activated_subscription(checkout, now)
                        /\ stripe_payments' =
                               IF existing_payment(stripe_payments) THEN stripe_payments
                               ELSE record_payment(stripe_payments)
                   ELSE IF ~subscription.exists
                   THEN /\ subscription' = activated_subscription(checkout, now)
                        /\ stripe_payments' = record_payment(stripe_payments)
                   ELSE UNCHANGED <<subscription, stripe_payments>>
                /\ stripe_done' = [stripe_done EXCEPT !.verifies = @ + 1]
                /\ stripe_response' = [op |-> "verify", status |-> 200]
    /\ UNCHANGED checkout
    /\ UNCHANGED <<now, user_role, response, usage, requests, started>>
    /\ UNCHANGED <<engine_vars, billing_vars, location_vars>>

vars == <<engine_vars, account_vars, billing_vars, location_vars, stripe_vars>>

\* The process starts with one of the served dataset files in place.
Init == EngineNew /\ csv_file \in ServedFiles /\ AccountIdle

\* The import of api/traffic.py constructs the engine; requests call it afterwards.
Next ==
    \/ LoadData
    \/ ConstructIndex
    \/ BuildStep
    \/ Classify
    \/ AdjustRoute
    \/ SearchStreets
    \/ Stats
    \/ Respond

Spec == Init /\ [][Next]_vars

\* The construction of the engine alone, from every dataset file.
NextBuild == LoadData \/ ConstructIndex \/ BuildStep

\* Every dataset file, before the import.
InitBuild == EngineNew /\ AccountIdle

SpecBuild == InitBuild /\ [][NextBuild]_vars

\* The counts the row of the first day can hold when the runs begin.
InitialCounts(tier) ==
    IF get_limit_for_tier(tier) = -1 THEN {NoRow, 0}
    ELSE {NoRow, 0, get_limit_for_tier(tier) - 1, get_limit_for_tier(tier)}

\* The users of the counter: an administrator, and users without a subscription
\* or with an active one that outlasts the run.
InitUsage ==
    /\ EngineIdle
    /\ now = 1
    /\ \/ user_role = "Admin" /\ subscription = NoSubscription
       \/ /\ user_role = "User"
          /\ \/ subscription = NoSubscription
             \/ \E tier \in {"plus", "pro"} :
                    subscription = [exists |-> TRUE, tier |-> tier, status |-> "active",
                                    expires_at |-> 1 + DefaultDays]
    /\ response = NoResponse
    /\ \E c \in InitialCounts(get_user_tier(user_role, subscription, now)) :
           usage = [d \in 1..MaxDay |-> IF d = 1 THEN c ELSE NoRow]
    /\ requests = [r \in 1..NumRequests |-> IdleRequest]
    /\ started = 0
    /\ ServicesIdle

\* The route requests of one user, handled concurrently, and the clock.
NextUsage ==
    \/ Tick
    \/ \E r \in 1..NumRequests :
           \/ BeginRequest(r)
           \/ QueryUsage(r)
           \/ CreateUsage(r)
           \/ LoadUsage(r)
           \/ Decide(r)
           \/ Work(r)
           \/ WriteUsage(r)
           \/ Finish(r)

SpecUsage == InitUsage /\ [][NextUsage]_vars

\* A user or an administrator without a subscription row.
InitSub ==
    /\ EngineIdle
    /\ now = 1
    /\ user_role \in {"User", "Admin"}
    /\ subscription = NoSubscription
    /\ response = NoResponse
    /\ usage = [d \in 1..MaxDay |-> NoRow]
    /\ requests = [r \in 1..NumRequests |-> IdleRequest]
    /\ started = 0
    /\ ServicesIdle

\* The life of a subscription.
NextSub == Tick \/ AdminSetSubscription \/ CancelSubscription

SpecSub == InitSub /\ [][NextSub]_vars

\* A user without subscription, request or payment.
InitBilling == EngineIdle /\ AccountIdle

\* The calls of the subscription request endpoints, handled concurrently.
NextBilling ==
    \E w \in 1..NumCalls :
        \/ BeginSubmit(w)
        \/ CheckPending(w)
        \/ CreateRequest(w)
        \/ CreatePayment(w)
        \/ BeginCancelRequest(w)
        \/ BeginProcess(w)
        \/ WriteRequest(w)
        \/ ReadSubscription(w)
        \/ WriteSubscription(w)
        \/ ReadPayment(w)
        \/ WritePayment(w)
        \/ FinishCall(w)

SpecBilling == InitBilling /\ [][NextBilling]_vars

\* An engine without data and an account at rest.
InitNormalize == EngineIdle /\ AccountIdle

\* The normalizer on its own: a name is normalized, and the result once more.
NextNormalize == NormalizeName \/ NormalizeAgain

SpecNormalize == InitNormalize /\ [][NextNormalize]_vars

\* The numbers of locations the user has saved when the runs begin.
InitialLocations == {0, FAVORITE_LOCATIONS.limits.plus - 1, FAVORITE_LOCATIONS.limits.plus}

\* The users of the saved locations: an administrator, and users without a
\* subscription or with an active one that ends with the first day or outlasts
\* the run.
InitLocations ==
    /\ EngineIdle
    /\ now = 1
    /\ \/ user_role = "Admin" /\ subscription = NoSubscription
       \/ /\ user_role = "User"
          /\ \/ subscription = NoSubscription
             \/ \E tier \in {"plus", "pro"}, expires_at \in {1, 1 + DefaultDays} :
                    subscription = [exists |-> TRUE, tier |-> tier, status |-> "active",
                                    expires_at |-> expires_at]
    /\ response = NoResponse
    /\ usage = [d \in 1..MaxDay |-> NoRow]
    /\ requests = [r \in 1..NumRequests |-> IdleRequest]
    /\ started = 0
    /\ BillingIdle
    /\ StripeIdle
    /\ saved_locations \in InitialLocations
    /\ posts = [w \in 1..NumPosts |-> IdlePost]

\* The calls of /api/saved_locations of one user, handled concurrently, and the clock.
NextLocations ==
    \/ Tick
    \/ \E w \in 1..NumPosts :
           \/ BeginLocation(w)
           \/ ReadLimit(w)
           \/ CountLocations(w)
           \/ CreateLocation(w)
           \/ DeleteLocation(w)
           \/ FinishLocation(w)

SpecLocations == InitLocations /\ [][NextLocations]_vars

\* The checkout sessions whose id a verify call can carry: of the user or of
\* another user, paid or not.
CheckoutSessions ==
    [tier : {"plus", "pro"}, billing_interval : {"monthly", "yearly"},
     payment_status : {"paid", "unpaid"}, owner : {"user", "other"}]

\* The subscriptions a user can have at a checkout: none, the free one of
\* CreateCheckoutSession, or a paid one, active or cancelled, expired or not.
CheckoutSubscriptions ==
    {NoSubscription,
     [exists |-> TRUE, tier |-> "free", status |-> "active", expires_at |-> NoExpiry]}
    \cup [exists : {TRUE}, tier : {"plus", "pro"}, status : {"active", "cancelled"},
          expires_at : {0, 1 + DefaultDays}]

\* A user with a checkout session.
InitStripe ==
    /\ EngineIdle
    /\ now = 1
    /\ user_role = "User"
    /\ subscription \in CheckoutSubscriptions
    /\ response = NoResponse
    /\ usage = [d \in 1..MaxDay |-> NoRow]
    /\ requests = [r \in 1..NumRequests |-> IdleRequest]
    /\ started = 0
    /\ BillingIdle
    /\ LocationsIdle
    /\ checkout \in CheckoutSessions
    /\ stripe_payments = << >>
    /\ stripe_done = [webhooks |-> 0, verifies |-> 0]
    /\ stripe_response = NoResponse

\* The deliveries of the event and the verify calls, in any order.
NextStripe == StripeWebhook \/ VerifySession

SpecStripe == InitStripe /\ [][NextStripe]_vars

(***************************************************************************)
(* The engine's properties.                                                *)
(***************************************************************************)

\* The return value of get_traffic_level without data.
UnknownLevel == [level |-> "unknown", multiplier |-> 1000, count |-> NoCount]

\* The dataset at csv_path does not load.
LoadFails(file) ==
    file.kind # "csv" \/ ~({"street_name", "total_count"} \subseteq file.columns)

\* C1: readers never see a build in progress: whenever requests can reach the
\* engine, its build has returned and street_index is a complete index of
\* traffic_df, neither the empty mapping of a build that has just begun nor a
\* mapping still being filled.
C1_BuildAtomic ==
    published =>
        /\ eng_pc = "ready"
        /\ build_todo = << >>
        /\ street_index \in build_street_index(traffic_df)

\* A read has returned from an index of two streets, which a build fills in two steps.
C1_Witness == result # NoResult /\ Len(street_index) = 2

\* C4: classify on empty or whitespace-only text returns (unknown, 1.0, null) and
\* adjustRoute on steps without instruction text returns the identity result,
\* whatever the index holds.
C4_EmptyInput ==
    /\ (result.op = "classify" /\ str_strip(result.street_name) = "")
           => result.value = UnknownLevel
    /\ (result.op = "adjust"
            /\ \A k \in 1..Len(result.route_steps) : step_instruction(result.route_steps[k]) = "")
           => result.value = IdentityAdjustment

\* The normalized name is no key, no substring and no superstring of a key.
AbsentFrom(index, normalized) ==
    \A i \in 1..Len(index) :
        /\ index[i].street_name # normalized
        /\ ~str_in(normalized, index[i].street_name)
        /\ ~str_in(index[i].street_name, normalized)

\* C5: classify on a street absent from the index returns exactly
\* (unknown, 1.0, null), and a classification of a street that is present has
\* neither the level unknown nor a null count.
C5_AbsentStreet ==
    result.op = "classify" =>
        IF AbsentFrom(street_index, normalize_street_name(result.street_name))
        THEN result.value = UnknownLevel
        ELSE result.value.level # "unknown" /\ result.value.count # NoCount

\* classify was called with OAK DR on an index that has streets.
C5_Witness ==
    /\ result.op = "classify"
    /\ result.street_name = "OAK DR"
    /\ Len(street_index) > 0
    /\ result.value = UnknownLevel

\* C6: when the dataset does not load, construction ends with the empty frame and
\* the empty index and builds nothing, and every read returns its no-data value.
C6_LoadFailure ==
    LoadFails(csv_file) =>
        /\ eng_pc # "building"
        /\ traffic_df = EmptyFrame
        /\ street_index = << >>
        /\ result.op = "classify" => result.value = UnknownLevel
        /\ result.op = "adjust" => result.value = IdentityAdjustment
        /\ result.op = "search" => result.value = << >>
        /\ result.op = "stats" => result.value = [status |-> "no_data"]

\* A csv without a required column was loaded and a route adjustment with a street
\* instruction was computed on the engine.
C6_Witness ==
    /\ csv_file.kind = "csv"
    /\ LoadFails(csv_file)
    /\ eng_pc = "ready"
    /\ result.op = "adjust"
    /\ \E k \in 1..Len(result.route_steps) :
           step_instruction(result.route_steps[k]) = "Turn right onto Main St"

\* C10: a found count is classified by half-open ascending thresholds, with the
\* multiplier of its tier: below 3000 very_low/0.90, below 8000 low/0.95, below
\* 15000 moderate/1.00, below 25000 high/1.15, from 25000 on very_high/1.30.
C10_Thresholds ==
    (result.op = "classify" /\ result.value.count # NoCount) =>
        LET n == result.value.count.n
            d == result.value.count.d
        IN  /\ n < 3000 * d => result.value.level = "very_low" /\ result.value.multiplier = 900
            /\ (3000 * d <= n /\ n < 8000 * d)
                   => result.value.level = "low" /\ result.value.multiplier = 950
            /\ (8000 * d <= n /\ n < 15000 * d)
                   => result.value.level = "moderate" /\ result.value.multiplier = 1000
            /\ (15000 * d <= n /\ n < 25000 * d)
                   => result.value.level = "high" /\ result.value.multiplier = 1150
            /\ 25000 * d <= n
                   => result.value.level = "very_high" /\ result.value.multiplier = 1300

\* A street whose count is exactly 3000 was classified low.
C10_Witness ==
    /\ result.op = "classify"
    /\ result.value.count = Rat(3000, 1)
    /\ result.value.level = "low"

\* C7: every key of the built index is a normalized street name, and no two keys
\* normalize to the same name (records of one normalized name share one entry).
C7_NormalizedKeys ==
    eng_pc = "ready" =>
        /\ \A i \in 1..Len(street_index) :
               normalize_street_name(street_index[i].street_name) = street_index[i].street_name
        /\ \A i, j \in 1..Len(street_index) :
               normalize_street_name(street_index[i].street_name)
                       = normalize_street_name(street_index[j].street_name)
                   => i = j

\* The rows of a group that have a parsed date.
dated_rows(df, group) == {i \in group : df.rows[i].date_count # NaT}

\* The sets the 3 most recent dated rows of a group can be (all of them when the
\* group has fewer; rows of one date are interchangeable).
most_recent_dated(df, group) ==
    LET dated == dated_rows(df, group)
        size == IF Cardinality(dated) < 3 THEN Cardinality(dated) ELSE 3
    IN  {h \in SUBSET dated :
            /\ Cardinality(h) = size
            /\ \A i \in h : \A j \in dated :
                   df.rows[j].date_count > df.rows[i].date_count => j \in h}

\* C8: the average_count of a street is the mean of total_count over its 3 most
\* recent dated records when the group has parsed dates, and the mean over all
\* records of the group when it has none.
C8_RecentAverage ==
    eng_pc = "ready" =>
        \A k \in 1..Len(street_index) :
            LET group == street_data(traffic_df, street_index[k].street_name)
            IN  IF dated_rows(traffic_df, group) # {}
                THEN \E h \in most_recent_dated(traffic_df, group) :
                         street_index[k].avg_count = mean_count(traffic_df, h)
                ELSE street_index[k].avg_count = mean_count(traffic_df, group)

\* C9: every loaded record has total_count >= 0, a cell that is no number is
\* loaded as 0, and no record of the file is dropped.
C9_NonNegativeCount ==
    (eng_pc # "new" /\ ~LoadFails(csv_file)) =>
        /\ Len(traffic_df.rows) = Len(csv_file.rows)
        /\ \A i \in 1..Len(traffic_df.rows) :
               /\ traffic_df.rows[i].total_count >= 0
               /\ csv_file.rows[i].total_count.t # "num" => traffic_df.rows[i].total_count = 0

(***************************************************************************)
(* The account's properties.                                               *)
(***************************************************************************)

\* C2: for a user of a tier with a finite daily limit (free 4, plus 50) no day's
\* count ever exceeds the limit, however the route requests interleave; a pro
\* user or an administrator is never refused with 429.
C2_DailyLimit ==
    LET limit == get_limit_for_tier(get_user_tier(user_role, subscription, now))
    IN  IF limit # -1
        THEN \A d \in 1..MaxDay : usage[d] <= limit
        ELSE \A r \in 1..NumRequests : requests[r].status # 429

\* C3: after the cancellation of a paid subscription get_user_tier returns the
\* paid tier as long as expires_at has not passed, and free once it has.
C3_CancelKeepsTier ==
    (/\ user_role # "Admin"
     /\ subscription.exists
     /\ subscription.status = "cancelled"
     /\ subscription.tier \in {"plus", "pro"}
     /\ subscription.expires_at # NoExpiry) =>
        LET expected == IF subscription.expires_at < now THEN "free" ELSE subscription.tier
        IN  /\ get_user_tier(user_role, subscription, now) = expected
            /\ route_get_user_tier(user_role, subscription, now) = expected

(***************************************************************************)
(* The reads of the engine: lookup, route adjustment, normalization,       *)
(* search, and their effect on the engine.                                 *)
(***************************************************************************)

RECURSIVE SumAvg(_, _)
\* The sum of avg_count over the entries at the positions M of an index.
SumAvg(index, M) ==
    IF M = {} THEN Rat(0, 1)
    ELSE LET i == CHOOSE x \in M : TRUE
         IN  RatAdd(index[i].avg_count, SumAvg(index, M \ {i}))

\* The positions of the entries whose key is the name.
ExactKeys(index, normalized) ==
    {i \in 1..Len(index) : index[i].street_name = normalized}

\* The positions of the entries whose key is a substring of the name or has the
\* name as a substring.
SubstringKeys(index, normalized) ==
    {i \in 1..Len(index) : \/ str_in(index[i].street_name, normalized)
                           \/ str_in(normalized, index[i].street_name)}

\* C11: classify uses the average_count of the exact entry whenever the normalized
\* name is an index key, whatever the other keys; only without an exact key does
\* it use the arithmetic mean of average_count over all keys that are a substring
\* of the normalized name or have it as a substring.
C11_ExactThenPartial ==
    result.op = "classify" =>
        LET normalized == normalize_street_name(result.street_name)
            exact == ExactKeys(street_index, normalized)
            partial == SubstringKeys(street_index, normalized)
        IN  IF exact # {}
            THEN \A i \in exact : result.value.count = street_index[i].avg_count
            ELSE partial # {} =>
                     result.value.count
                         = RatDiv(SumAvg(street_index, partial), Cardinality(partial))

\* Main was classified on an index with the keys MAIN ST and MAIN STREET and no
\* key MAIN: the count is the mean of the two averages.
C11_Witness ==
    /\ result.op = "classify"
    /\ result.street_name = "Main"
    /\ index_keys(street_index) = {"MAIN ST", "MAIN STREET"}
    /\ result.value.count = Rat(SynthCounts[1] + SynthCounts[2], 2)

\* No street extracted from any step of the route classifies to a known level.
NoKnownCandidate(df, index, route_steps) ==
    \A k \in 1..Len(route_steps) :
        \A street \in extracted_streets(step_instruction(route_steps[k])) :
            get_traffic_level(df, index, street).level = "unknown"

\* C12: adjustRoute returns exactly the identity result (1.0, low, 0, []) when
\* steps is empty and when no candidate of any step classifies to a known level,
\* as for the single step "Continue straight".
C12_IdentityResult ==
    result.op = "adjust" =>
        /\ Len(result.route_steps) = 0 => result.value = IdentityAdjustment
        /\ NoKnownCandidate(traffic_df, street_index, result.route_steps)
               => result.value = IdentityAdjustment
        /\ result.route_steps = <<[has_instruction |-> TRUE, instruction |-> "Continue straight"]>>
               => result.value = IdentityAdjustment

\* The classifications the loops of a route collect: one for each step and each
\* street extracted from it whose level is known.
KnownClassifications(df, index, route_steps) ==
    {<<k, street>> \in (1..Len(route_steps)) \X UNION {extracted_streets(i) : i \in Instructions} :
        /\ street \in extracted_streets(step_instruction(route_steps[k]))
        /\ get_traffic_level(df, index, street).level # "unknown"}

RECURSIVE SumMultipliers(_, _, _)
\* The sum of the multipliers of a set of classifications.
SumMultipliers(df, index, known) ==
    IF known = {} THEN 0
    ELSE LET c == CHOOSE x \in known : TRUE
         IN  get_traffic_level(df, index, c[2]).multiplier
                 + SumMultipliers(df, index, known \ {c})

\* C13: when at least one candidate classifies to a known level, the route
\* multiplier is the unweighted arithmetic mean, rounded to 3 decimals, of the
\* multipliers of all known classifications of all steps (a street extracted in
\* two steps counts twice), and streets_matched is their number: unknown
\* classifications count in neither.
C13_MeanMultiplier ==
    (result.op = "adjust"
         /\ ~NoKnownCandidate(traffic_df, street_index, result.route_steps)) =>
        LET known == KnownClassifications(traffic_df, street_index, result.route_steps)
            total == SumMultipliers(traffic_df, street_index, known)
            n == Cardinality(known)
        IN  /\ result.value.streets_matched = n
            /\ 2 * Abs(result.value.multiplier * n - total) <= n

\* A route whose streets are one low and one high street, and one unknown, got 1.05.
C13_Witness ==
    /\ result.op = "adjust"
    /\ Len(result.route_steps) = 2
    /\ \E k \in 1..2 : \E street \in extracted_streets(step_instruction(result.route_steps[k])) :
           get_traffic_level(traffic_df, street_index, street).level = "unknown"
    /\ {result.value.street_details[i].level : i \in 1..Len(result.value.street_details)}
           = {"low", "high"}
    /\ result.value.streets_matched = 2
    /\ result.value.multiplier = 1050

\* C14: the confidence of a route adjustment is a function of streets_matched
\* alone: high from 5 matched streets on, medium for 2 to 4, low for 0 or 1,
\* whatever the multiplier.
C14_Confidence ==
    result.op = "adjust" =>
        LET n == result.value.streets_matched
        IN  /\ n >= 5 => result.value.confidence = "high"
            /\ (2 <= n /\ n <= 4) => result.value.confidence = "medium"
            /\ n <= 1 => result.value.confidence = "low"

\* A route with at least 5 matched streets and a multiplier other than 1.0 got
\* the confidence high.
C14_Witness ==
    /\ result.op = "adjust"
    /\ result.value.streets_matched >= 5
    /\ result.value.multiplier # 1000
    /\ result.value.confidence = "high"

\* C15: normalize is idempotent: normalizing a normalized name gives the same
\* name, for names with full suffix words, repeated whitespace and mixed case.
C15_Idempotent ==
    result.op = "normalize_again" => result.value = result.street_name

\* "Street  STREET" (a full suffix word twice, mixed case, two spaces) was
\* normalized to "ST ST" and normalized again.
C15_Witness ==
    /\ result.op = "normalize_again"
    /\ result.pieces = <<"Street", "  ", "STREET">>
    /\ result.street_name = "ST ST"

\* c.lower() for one character.
LowerCh(c) ==
    IF c \in CharsOf(UpperLetters)
    THEN Ch(LowerLetters, CHOOSE i \in 1..Len(UpperLetters) : Ch(UpperLetters, i) = c)
    ELSE c

RECURSIVE str_lower(_)
\* str.lower
str_lower(s) ==
    IF Len(s) = 0 THEN ""
    ELSE LowerCh(Ch(s, 1)) \o str_lower(SubSeq(s, 2, Len(s)))

\* A piece made of word characters.
IsWordPiece(piece) == CharsOf(piece) \subseteq WordSet

\* Piece i is a whole word of the name: no word piece touches it.
WholeWord(pieces, i) ==
    /\ IsWordPiece(pieces[i])
    /\ i > 1 => ~IsWordPiece(pieces[i - 1])
    /\ i < Len(pieces) => ~IsWordPiece(pieces[i + 1])

\* The abbreviation of a full suffix word, in any case; other words unchanged.
AbbreviationOf(word) ==
    IF \E k \in 1..Len(abbreviations) : abbreviations[k][1] = str_upper(word)
    THEN abbreviations[CHOOSE k \in 1..Len(abbreviations) :
                           abbreviations[k][1] = str_upper(word)][2]
    ELSE word

\* The name with every whole-word full suffix abbreviated.
Abbreviated(pieces) ==
    [i \in 1..Len(pieces) |->
        IF WholeWord(pieces, i) THEN AbbreviationOf(pieces[i]) ELSE pieces[i]]

\* The name with every run of two spaces made one space.
SingleSpaced(pieces) ==
    [i \in 1..Len(pieces) |-> IF pieces[i] = "  " THEN " " ELSE pieces[i]]

\* No whole word of the name is a full suffix word.
NoFullSuffix(pieces) ==
    \A i \in 1..Len(pieces) :
        WholeWord(pieces, i) => AbbreviationOf(pieces[i]) = pieces[i]

\* C16: normalize gives the same result whatever the case of the name, with
\* whitespace added at its ends, with repeated whitespace made single, and with
\* whole-word full suffixes abbreviated (" Main   Street " as "MAIN ST"); a name
\* none of whose whole words is a full suffix keeps its words (STREETSVILLE RD
\* keeps STREETSVILLE).
C16_Insensitive ==
    result.op = "normalize" =>
        LET x == result.street_name
            v == result.value
        IN  /\ normalize_street_name(str_upper(x)) = v
            /\ normalize_street_name(str_lower(x)) = v
            /\ normalize_street_name(" " \o x \o "  ") = v
            /\ normalize_street_name(ConcatPieces(SingleSpaced(result.pieces))) = v
            /\ normalize_street_name(ConcatPieces(Abbreviated(result.pieces))) = v
            /\ NoFullSuffix(result.pieces) => v = join_split(str_strip(str_upper(x)))
            /\ x = " Main   Street " => v = normalize_street_name("MAIN ST")
            /\ x = "STREETSVILLE RD" => v = "STREETSVILLE RD"

\* " Main   Street " was normalized to MAIN ST.
C16_Witness ==
    /\ result.op = "normalize"
    /\ result.street_name = " Main   Street "
    /\ result.value = "MAIN ST"

\* The positions of the entries whose key contains the upper-cased query.
Matching(index, up) == {i \in 1..Len(index) : str_in(up, index[i].street_name)}

\* The entry x of a result belongs before the entry y: its key starts with the
\* query and y's does not, or both are of one group and x has the larger count.
RanksBefore(up, x, y) ==
    LET px == str_startswith(x.street_name, up)
        py == str_startswith(y.street_name, up)
    IN  (px /\ ~py) \/ (px = py /\ x.avg_count > y.avg_count)

\* R holds the first limit entries of the matching entries of the index in
\* ranking order (all of them when they are fewer).
IsSearchResult(index, up, limit, R) ==
    LET M == Matching(index, up)
        names == {R[j].street_name : j \in 1..Len(R)}
        rest == {i \in M : index[i].street_name \notin names}
    IN  /\ Len(R) = IF limit < Cardinality(M) THEN limit ELSE Cardinality(M)
        /\ \A j \in 1..Len(R) :
               \E i \in M : /\ R[j].street_name = index[i].street_name
                            /\ R[j].avg_count = RoundHalfEven(index[i].avg_count)
                            /\ R[j].sample_size = index[i].sample_size
        /\ \A j, k \in 1..Len(R) : j < k =>
               /\ R[j].street_name # R[k].street_name
               /\ ~RanksBefore(up, R[k], R[j])
        /\ \A i \in rest : \A j \in 1..Len(R) :
               ~RanksBefore(up, [street_name |-> index[i].street_name,
                                 avg_count |-> RoundHalfEven(index[i].avg_count)], R[j])

\* C17, as claimed: for every query and every limit >= 0, searchStreets returns
\* exactly the first limit entries of the list of all index entries whose key
\* contains the upper-cased query, keys that start with the query first and
\* each group by descending average count, and never more than limit entries.
C17_SearchAnyQuery ==
    (result.op = "search" /\ result.limit >= 0) =>
        /\ IsSearchResult(street_index, str_upper(result.query), result.limit, result.value)
        /\ Len(result.value) <= result.limit

\* C17, amended: the same for every query that is not empty; for the empty
\* query searchStreets returns the empty list.
C17_SearchOrder ==
    (result.op = "search" /\ result.limit >= 0) =>
        /\ result.query # "" =>
               IsSearchResult(street_index, str_upper(result.query), result.limit, result.value)
        /\ result.query = "" => result.value = << >>
        /\ Len(result.value) <= result.limit

\* A search for E with limit 1 on an index with E ST and the busier MAIN STREET
\* returned E ST alone.
C17_Witness ==
    /\ result.op = "search"
    /\ result.query = "E"
    /\ result.limit = 1
    /\ \E i, j \in 1..Len(street_index) :
           /\ street_index[i].street_name = "E ST"
           /\ street_index[j].street_name = "MAIN STREET"
           /\ RatLt(street_index[i].avg_count, street_index[j].avg_count.n)
    /\ Len(result.value) = 1
    /\ result.value[1].street_name = "E ST"

\* C18: the reads (classify, adjustRoute, searchStreets, stats) leave the loaded
\* dataset and the street index unchanged: from the moment requests can reach
\* the engine no step changes traffic_df or street_index, however the reads
\* follow one another.
C18_ReadsChangeNothing ==
    [][published => (traffic_df' = traffic_df /\ street_index' = street_index)]_vars

\* A search has returned both entries of an index, which is still the index
\* built from the dataset.
C18_Witness ==
    /\ result.op = "search"
    /\ Len(result.value) = 2
    /\ street_index \in build_street_index(traffic_df)

(***************************************************************************)
(* The properties of the subscription requests.                            *)
(***************************************************************************)

\* The ids of the pending requests.
PendingRequests(rows) == {i \in 1..Len(rows) : rows[i].status = "pending"}

\* C19: a subscription request is created pending; approve and reject, by body
\* id or by URL id, act only on a pending request: called on an approved or
\* rejected request they return 400 and change neither the request, the
\* subscription nor the payment history, so that a request that is approved or
\* rejected never changes again.
C19_TerminalStates ==
    [][/\ Len(subscription_requests') > Len(subscription_requests) =>
              subscription_requests'[Len(subscription_requests')].status = "pending"
       /\ \A id \in 1..Len(subscription_requests) :
              subscription_requests[id].status \in {"approved", "rejected"} =>
                  subscription_requests'[id] = subscription_requests[id]
       /\ \A w \in 1..NumCalls :
              (/\ calls[w].pc = "idle"
               /\ calls'[w].op \in {"approve", "reject"}
               /\ calls'[w].id \in 1..Len(subscription_requests)
               /\ subscription_requests[calls'[w].id].status # "pending") =>
                  /\ calls'[w].pc = "done"
                  /\ calls'[w].status = 400
                  /\ UNCHANGED <<subscription_requests, subscription, payment_history>>
      ]_vars

\* C20: the user never has more than one pending subscription request, however
\* the submissions, withdrawals, approvals and rejections interleave, and a
\* request is created only when the user has no pending request: a submission
\* that finds one ends with 400 and creates neither request nor payment.
C20_OnePending ==
    [][/\ Cardinality(PendingRequests(subscription_requests')) <= 1
       /\ Len(subscription_requests') > Len(subscription_requests) =>
              PendingRequests(subscription_requests) = {}
       /\ \A w \in 1..NumCalls :
              (/\ calls[w].pc = "check_pending"
               /\ calls'[w] # calls[w]
               /\ PendingRequests(subscription_requests) # {}) =>
                  /\ calls'[w].pc = "done"
                  /\ calls'[w].status = 400
                  /\ UNCHANGED <<subscription_requests, payment_history>>
      ]_vars

\* The subscription an approval of a request for a plan grants at time t.
granted_subscription(plan, billing_interval, t) ==
    [exists |-> TRUE, tier |-> plan, status |-> "active",
     expires_at |-> t + granted_days(billing_interval)]

\* C21: once an approval has marked a request approved, its commit of the
\* subscription leaves the user's subscription active, with the requested plan
\* as tier and expiring 365 days (yearly) or 30 days (otherwise) after the
\* approval, so that get_user_tier gives the plan up to expires_at.
C21_ApprovalGrants ==
    [][\A w \in 1..NumCalls :
           (calls[w].pc = "write_subscription" /\ calls'[w] # calls[w]) =>
               /\ subscription' =
                      granted_subscription(calls[w].plan, calls[w].billing_interval, now)
               /\ \A t \in now..subscription'.expires_at :
                      get_user_tier("User", subscription', t) = calls[w].plan
      ]_vars

(***************************************************************************)
(* The properties of the route counter.                                    *)
(***************************************************************************)

\* The count of a day: a day without a row counts 0.
day_count(rows, d) == IF rows[d] = NoRow THEN 0 ELSE rows[d]

\* C22: a POST /get_routes request raises the user's count of the day by
\* exactly 1 in the step that ends it with 200 and changes no count in any
\* other step, whatever its outcome (429, 400, 404, 500).
C22_CountsSuccess ==
    [][\A r \in 1..NumRequests :
           (/\ requests[r].endpoint = "get_routes"
            /\ requests[r].pc # "done"
            /\ requests'[r] # requests[r]) =>
               \A d \in 1..MaxDay :
                   day_count(usage', d) =
                       IF /\ requests'[r].pc = "done"
                          /\ requests'[r].status = 200
                          /\ d = requests'[r].day
                       THEN day_count(usage, d) + 1
                       ELSE day_count(usage, d)
      ]_vars

(***************************************************************************)
(* The properties of the saved locations.                                  *)
(***************************************************************************)

\* The user's tier.
current_tier == get_user_tier(user_role, subscription, now)

\* C23: a user on the plus tier never has more than 10 saved locations: a POST
\* of a plus user that counts 10 or more ends with 403 and creates nothing; a
\* POST of a free user ends with 403 and creates nothing; a POST of a pro user
\* or an administrator is never refused.
C23_LocationLimit ==
    [][/\ get_user_tier(user_role', subscription', now') = "plus" =>
              saved_locations' <= FAVORITE_LOCATIONS.limits.plus
       /\ \A w \in 1..NumPosts :
              /\ (/\ posts[w].pc = "count"
                  /\ posts'[w] # posts[w]
                  /\ saved_locations >= FAVORITE_LOCATIONS.limits.plus) =>
                     /\ posts'[w].pc = "done"
                     /\ posts'[w].status = 403
                     /\ saved_locations' = saved_locations
              /\ (/\ posts[w].pc = "idle"
                  /\ posts'[w].op = "post"
                  /\ current_tier = "free") =>
                     /\ posts'[w].pc = "done"
                     /\ posts'[w].status = 403
                     /\ saved_locations' = saved_locations
              /\ (/\ posts'[w].op = "post"
                  /\ posts'[w] # posts[w]
                  /\ current_tier \in {"pro", "admin"}) =>
                     posts'[w].status # 403
      ]_vars

(***************************************************************************)
(* The properties of the Stripe payments.                                  *)
(***************************************************************************)

\* C24: a verify call that returns 200 for the user's paid checkout session
\* leaves the user's subscription with the tier of the session, active and
\* expiring in the future, whatever the subscription was before and whether or
\* not the webhook has fired.
C24_VerifyActivates ==
    [][(/\ stripe_done'.verifies > stripe_done.verifies
        /\ stripe_response' = [op |-> "verify", status |-> 200]) =>
           /\ subscription'.exists
           /\ subscription'.tier = checkout.tier
           /\ subscription'.status = "active"
           /\ subscription'.expires_at > now
      ]_vars

\* The paid payments that carry the payment intent of the session.
PaidPayments ==
    {i \in 1..Len(stripe_payments) :
        /\ stripe_payments[i].status = "paid"
        /\ stripe_payments[i].payment_intent = session_payment.payment_intent}

\* C25: once the webhook and the verify call of a completed checkout session
\* have both been processed, in either order and with any number of deliveries
\* of the event, exactly one paid payment carries its payment intent.
C25_OnePayment ==
    (stripe_done.webhooks >= 1 /\ stripe_done.verifies >= 1) =>
        Cardinality(PaidPayments) = 1

(***************************************************************************)
(* The properties of routes built street by street.                        *)
(***************************************************************************)

\* The street an instruction of the form 'Turn ... onto <street>' mentions, ""
\* for every other instruction.
mentioned_street(instruction) ==
    IF instruction = "Turn right onto Main St" THEN "Main St"
    ELSE IF instruction = "Turn left onto Elm Av" THEN "Elm Av"
    ELSE ""

\* Every step of the route mentions one street once, no two steps the same
\* street, and every street has a classification.
OneStreetPerStep(df, index, route_steps) ==
    /\ Len(route_steps) >= 1
    /\ \A k \in 1..Len(route_steps) :
           /\ route_steps[k].has_instruction
           /\ mentioned_street(route_steps[k].instruction) # ""
           /\ get_traffic_level(df, index, mentioned_street(route_steps[k].instruction)).level
                  # "unknown"
           /\ \A j \in 1..(k - 1) : route_steps[j].instruction # route_steps[k].instruction

\* C26: a route whose steps mention one matchable street each, all distinct,
\* matches as many streets as it has steps, and its confidence is low for 1,
\* medium for 3 and high for 6 streets.
C26_OneCandidatePerMention ==
    (/\ result.op = "adjust"
     /\ OneStreetPerStep(traffic_df, street_index, result.route_steps)) =>
        /\ result.value.streets_matched = Len(result.route_steps)
        /\ Len(result.route_steps) = 1 => result.value.confidence = "low"
        /\ Len(result.route_steps) = 3 => result.value.confidence = "medium"
        /\ Len(result.route_steps) = 6 => result.value.confidence = "high"

(***************************************************************************)
(* The properties of the statistics of an index entry.                     *)
(***************************************************************************)

\* The entry e holds the statistics of the rows of group: the largest and the
\* smallest total_count, the number of rows, and an average between the two,
\* equal to them for a single row.
FullGroupStats(df, e, group) ==
    /\ group # {}
    /\ e.sample_size = Cardinality(group)
    /\ e.sample_size >= 1
    /\ \A i \in group : e.min_count <= df.rows[i].total_count
    /\ \A i \in group : df.rows[i].total_count <= e.max_count
    /\ \E i \in group : df.rows[i].total_count = e.min_count
    /\ \E i \in group : df.rows[i].total_count = e.max_count
    /\ e.avg_count.d > 0
    /\ e.min_count * e.avg_count.d <= e.avg_count.n
    /\ e.avg_count.n <= e.max_count * e.avg_count.d
    /\ e.sample_size = 1 =>
           /\ e.min_count = e.max_count
           /\ e.avg_count.n = e.min_count * e.avg_count.d

====
